---- MODULE Spec2Model ----
(***************************************************************************)
(* Verification model of the digital-human pipeline.                       *)
(*                                                                         *)
(* Part 1: AsyncUDPStreamer (src/agent/dh_streamer_async.py): the stream   *)
(* task queue, the scheduler thread (_task_manager), the monitor thread    *)
(* (_process_monitor), stop() and add_stream_task().                       *)
(* Part 2: DigitalHumanGenerator.generate_unique_id                        *)
(* (src/agent/dh_generator.py) called by several worker threads.           *)
(* Part 3: the producer thread of the paragraph generator                  *)
(* (src/digital_human_paragraph_generator.py) and its bounded text queue.  *)
(* Part 4: DigitalHumanParagraphSystem (src/agent/dh_system.py): the text  *)
(* thread, the video workers, generate_video's files, stop().              *)
(* Part 5: the frame loop of one synthesis run (src/inference.py and the   *)
(* script generated by _create_smart_inference_script).                    *)
(* Part 6: single computations and small protocols of the other scripts,   *)
(* held in the record calc: audio windows, crop regions, frame selectors,  *)
(* text analysis, the task ids of the streamer, the audio counter of the   *)
(* optimized system, StreamBuffer, start() of the wenet system, the        *)
(* timeout of inference_improved and get_action_sequence.                  *)
(*                                                                         *)
(* StreamTask objects are numbered 1, 2, ... in the order add_stream_task  *)
(* creates them; the per-task fields are sequences indexed by that number. *)
(* In parts 1 and 4 the dicts active_tasks / completed_tasks are modelled  *)
(* as sets of task numbers, which is what they are in the runs where the   *)
(* task ids are distinct; the ids themselves, and the runs where two tasks *)
(* get the same id, are the subject of TaskIdSpec.  The scheduler is       *)
(* the only inserter into active_tasks and takes tasks in FIFO order, so   *)
(* the insertion order of a dict (its iteration order) is the numeric      *)
(* order of the task numbers.                                              *)
(***************************************************************************)
EXTENDS Integers, Sequences, FiniteSets, TLC

\* ---------------------------------------------------------------- bounds
MaxTasks == 2   \* submissions explored by Spec and LiveSpec
MaxConc  == 2   \* largest constructor argument max_concurrent_streams explored
Workers  == 2   \* worker threads sharing one DigitalHumanGenerator
MaxCalls == 4   \* calls of generate_unique_id, all workers together
MaxQ     == 2   \* largest config.text_queue_size explored
MaxUnits == 4   \* script units generated in one run
MaxTexts == 2   \* paragraphs generated by the text thread of dh_system
MaxFrames == 5  \* largest number of feature frames of one synthesis run
MaxFeat  == 9   \* longest feature sequence given to get_audio_features
IdxSlack == 6   \* index arguments range over -IdxSlack .. MaxFeat + IdxSlack
MaxImg   == 3   \* largest width and height of a reference image, in pixels
CoordSlack == 1 \* landmark coordinates range over -CoordSlack .. MaxImg + CoordSlack
MaxPool  == 5   \* largest reference pool given to the ping-pong selectors
MaxSteps == 12  \* frames selected by a ping-pong selector in one run
MaxMissing == 2 \* pools of default_total_images - MaxMissing .. default_total_images images
MaxFrameNo == 80 \* frames selected by an action-driven selector in one run
MaxKw    == 2   \* keywords of each category that a text may contain

\* ------------------------------------------------------ program constants
ErrLimit == 200 \* stderr.decode()[:200]

\* DigitalHumanConfig.parallel_workers: int = 2
parallel_workers == 2

\* ActionManager.__init__(self, total_images: int = 1178)
default_total_images == 1178

\* img_idx = max(0, min(img_idx, 1177)) in the generated script
script_max_index == 1177

\* estimated_frames = max(10, int(sentence_char_ratio * 100)) for a batch of
\* one sentence (sentence_char_ratio = 1)
estimated_frames == 100

\* AsyncStreamManager(config, max_queue_size, stream_timeout): the configured
\* queue size (at least 1; the smallest value is taken)
max_queue_size == 1

VARIABLES
    is_running,              \* AsyncUDPStreamer.is_running
    max_concurrent_streams,  \* constructor argument
    status,                  \* StreamTask.status, per task object
    process,                 \* StreamTask.process (state of the child process)
    pgkill,                  \* last signal the monitor sent to the task's process group
    expired,                 \* time.time() - task.start_time > stream_timeout
    error_message,           \* StreamTask.error_message
    stream_queue,            \* queue.Queue() of task objects
    active_tasks,            \* dict active_tasks (its key set)
    completed_tasks,         \* dict completed_tasks (its key set)
    sched_pc, sched_task,    \* manager thread: position, local `task`
    mon_pc, mon_used, mon_pos, mon_done,
                             \* monitor thread: position, dict iterator
                             \* (size at creation, last entry visited),
                             \* local list `completed_tasks`
    stop_pc, stop_snap, stop_pos,
                             \* caller of stop(): position, dict iterator
    last_ret                 \* value returned by the last add_stream_task (0: none yet)

varsS == << is_running, max_concurrent_streams, status, process, pgkill, expired,
            error_message, stream_queue, active_tasks, completed_tasks,
            sched_pc, sched_task, mon_pc, mon_used, mon_pos, mon_done,
            stop_pc, stop_snap, stop_pos, last_ret >>

\* DigitalHumanGenerator shared by the worker threads
VARIABLES
    video_counter,           \* DigitalHumanGenerator.video_counter
    counter_lock,            \* counter_lock: 0 when free, else the holding worker
    gen_pc,                  \* per worker: position inside generate_unique_id
    gen_text,                \* per worker: text_hash of the call in progress
    gen_reg,                 \* per worker: value loaded by `self.video_counter += 1`
    gen_counter,             \* per worker: local `counter`
    gen_calls,               \* calls made so far by all workers
    unique_ids               \* ids returned so far, in order of return

varsG == << video_counter, counter_lock, gen_pc, gen_text, gen_reg, gen_counter,
            gen_calls, unique_ids >>

\* producer side of DigitalHumanParagraphSystem
\* (src/digital_human_paragraph_generator.py); script units are numbered
\* 1, 2, ... in the order generate_paragraph_script returns them
VARIABLES
    pg_running,              \* DigitalHumanParagraphSystem.running
    pg_size,                 \* config.text_queue_size (maxsize of text_queue)
    pg_queue,                \* text_queue
    pg_pc,                   \* producer thread: position
    pg_text,                 \* producer thread: local `paragraph_text`
    pg_boot,                 \* start(): position of the bootstrap enqueue
    pg_made,                 \* units generated so far
    pg_dropped,              \* units whose enqueue raised queue.Full
    pg_warnings              \* warnings logged for a full queue

varsT == << pg_running, pg_size, pg_queue, pg_pc, pg_text, pg_boot, pg_made,
            pg_dropped, pg_warnings >>

\* DigitalHumanParagraphSystem of src/agent/dh_system.py: the text thread,
\* the video worker threads, the status thread, stop(), and the files a
\* worker leaves in temp_dir / output_dir.  Paragraphs are numbered in the
\* order they are generated; a base name is the counter value that
\* generate_unique_id returned for it.
VARIABLES
    running,                 \* DigitalHumanParagraphSystem.running
    text_queue_size,         \* config.text_queue_size
    text_queue,              \* text_queue
    text_pc,                 \* text thread: position
    text_made,               \* paragraphs generated so far
    wk_pc,                   \* per worker: position in _video_generation_worker
    wk_text,                 \* per worker: local `text`
    wk_base,                 \* per worker: local `base_name`
    takes,                   \* per paragraph: how many times a get returned it
    owners,                  \* per paragraph: the workers a get returned it to
    outcome,                 \* per base name: how its processing ended
    files,                   \* files on disk: << base name, kind >>
    submitted,               \* base names passed to add_stream_task, in order
    smon_pc,                 \* status thread (_stream_monitor_worker): position
    sys_stop_pc              \* caller of DigitalHumanParagraphSystem.stop()

varsP == << running, text_queue_size, text_queue, text_pc, text_made, wk_pc,
            wk_text, wk_base, takes, owners, outcome, files, submitted,
            smon_pc, sys_stop_pc >>

\* one synthesis run: the frame loop of src/inference.py and of the script
\* written by _create_smart_inference_script
VARIABLES
    fr_n,                    \* audio_feats.shape[0]
    fr_i,                    \* loop variable i
    fr_pc,                   \* position of the run
    fr_written,              \* values of i at the video_writer.write calls, in order
    fr_skipped               \* values of i whose iteration ended in `continue`

varsF == << fr_n, fr_i, fr_pc, fr_written, fr_skipped >>

\* the computation of the synthesis script or of ActionManager under study,
\* a record whose field op names it:
\*   "idle":    none
\*   "audio":   one call of get_audio_features(features, index), with
\*              len (features.shape[0]), index, pc ("call", "returned") and
\*              out (the rows of the returned tensor, in order; row k of
\*              the feature sequence is written k, a row of zeros 0)
\*   "crop":    the body of the frame loop for one reference image, with
\*              img ([w, h] of img.shape), count (len(lms_list)), lms
\*              ([xmin, xmax, ymin, ymax]: np.min / np.max of the landmark
\*              coordinates), pc ("frame", "skipped", "written"), box
\*              ([xmin, xmax, ymin, ymax] at the validation) and changed
\*              (the pixels << x, y >> assigned by the body)
\*   "select":  one run of a reference-frame selector, with impl
\*              ("inference": the loop head of inference.py, "simple":
\*              _get_simple_sequence, "script": the script written by
\*              _create_smart_inference_script, "batch": the logic of
\*              _generate_batch_action_logic), n (the number of images in
\*              full_body_img), img_idx, step_stride, range (<< start, end >>
\*              of the chosen action range) and out (the indices produced
\*              so far, one per frame)
\*   "analyze": one call of analyze_text_action(text), with impl ("clients":
\*              dh_clients.py, "enhanced":
\*              enhanced_digital_human_generator.py), text (the keywords
\*              contained in text; << category, k >> is the k-th keyword of
\*              the category), pc ("call", "returned") and result
\*   "ids", "counter", "buffer", "wenet", "improved", "sequence": the
\*              task ids of the streamer, the audio counter of the
\*              optimized system, a StreamBuffer queue, start() of the wenet
\*              system, the frame loop of inference_improved and one call
\*              of get_action_sequence; their fields are described at
\*              InitTaskIds, InitOptimized, InitBuffer, InitWenet,
\*              InitImproved and InitSequence
VARIABLES
    calc

varsScript == << calc >>

\* the parts the threads of dh_system never touch
varsOther == << varsT, varsF, varsScript >>

\* what the actions of each part leave alone
varsNotS == << varsG, varsT, varsP, varsF, varsScript >>
varsNotG == << varsS, varsT, varsP, varsF, varsScript >>
varsNotT == << varsS, varsG, varsP, varsF, varsScript >>
varsNotF == << varsS, varsG, varsT, varsP, varsScript >>
varsNotScript == << varsS, varsG, varsT, varsP, varsF >>

vars == << varsS, varsG, varsT, varsP, varsF, varsScript >>

\* ------------------------------------------------------------- data model
StreamTaskStatus == {"PENDING", "STREAMING", "COMPLETED", "FAILED", "TIMEOUT"}

Terminal == {"COMPLETED", "FAILED", "TIMEOUT"}

NoError == [kind |-> "None", len |-> 0]

\* lengths of the decoded stderr text of a failed child process
StderrLens == {150, 250}

Tasks == 1..Len(status)

Min(S) == CHOOSE x \in S : \A y \in S : x <= y

\* Popen.poll(): None while the child runs, else its return code
\* (negative signal number when it was killed by a signal)
Poll(p) ==
    CASE p = "running" -> "None"
      [] p = "exit0"   -> "0"
      [] p = "exitN"   -> "1"
      [] p = "killed"  -> "-15"   \* or -9: the negative signal number
      [] OTHER         -> "None"

\* stderr.decode()[:200]
Truncate(n) == IF n > ErrLimit THEN ErrLimit ELSE n

\* os.killpg(SIGTERM); wait(timeout=2); os.killpg(SIGKILL) when the wait
\* raises: the last signal the monitor sent to the task's process group
KillGroup(diesOnTerm) == IF diesOnTerm THEN "SIGTERM" ELSE "SIGKILL"

\* ------------------------------------------------------------------ Init
InitStreamer(m) ==
    /\ is_running = FALSE
    /\ max_concurrent_streams = m
    /\ status = << >>
    /\ process = << >>
    /\ pgkill = << >>
    /\ expired = << >>
    /\ error_message = << >>
    /\ stream_queue = << >>
    /\ active_tasks = {}
    /\ completed_tasks = {}
    /\ sched_pc = "idle" /\ sched_task = 0
    /\ mon_pc = "idle" /\ mon_used = 0 /\ mon_pos = 0 /\ mon_done = {}
    /\ stop_pc = "idle" /\ stop_snap = {} /\ stop_pos = 0
    /\ last_ret = 0

InitGenerator ==
    /\ video_counter = 0
    /\ counter_lock = 0
    /\ gen_pc = [w \in 1..Workers |-> "idle"]
    /\ gen_text = [w \in 1..Workers |-> 0]
    /\ gen_reg = [w \in 1..Workers |-> 0]
    /\ gen_counter = [w \in 1..Workers |-> 0]
    /\ gen_calls = 0
    /\ unique_ids = << >>

InitProducer(q) ==
    /\ pg_running = FALSE
    /\ pg_size = q
    /\ pg_queue = << >>
    /\ pg_pc = "idle"
    /\ pg_text = 0
    /\ pg_boot = "idle"
    /\ pg_made = 0
    /\ pg_dropped = {}
    /\ pg_warnings = 0

InitSystem(q) ==
    /\ running = FALSE
    /\ text_queue_size = q
    /\ text_queue = << >>
    /\ text_pc = "idle"
    /\ text_made = 0
    /\ wk_pc = [w \in 1..parallel_workers |-> "idle"]
    /\ wk_text = [w \in 1..parallel_workers |-> 0]
    /\ wk_base = [w \in 1..parallel_workers |-> 0]
    /\ takes = [u \in 1..MaxTexts |-> 0]
    /\ owners = [u \in 1..MaxTexts |-> {}]
    /\ outcome = [b \in 1..MaxTexts |-> "none"]
    /\ files = {}
    /\ submitted = << >>
    /\ smon_pc = "idle"
    /\ sys_stop_pc = "idle"

\* a synthesis run about to enter its frame loop over n feature frames
InitFrames(n) ==
    /\ fr_n = n
    /\ fr_i = 0
    /\ fr_pc = "loop"
    /\ fr_written = << >>
    /\ fr_skipped = {}

\* get_audio_features about to be called with a sequence of n rows and the
\* index i
InitAudio(n, i) ==
    calc = [op |-> "audio", pc |-> "call", len |-> n, index |-> i, out |-> << >>]

NoBox == [xmin |-> 0, xmax |-> 0, ymin |-> 0, ymax |-> 0]

\* the frame body about to run for an image of w x h pixels and n landmarks
\* with the extreme coordinates l
InitCrop(w, h, n, l) ==
    calc = [op |-> "crop", pc |-> "frame", img |-> [w |-> w, h |-> h],
            count |-> n, lms |-> l, box |-> NoBox, changed |-> {}]

\* the selector impl before its first frame, for a pool of n images and
\* the action range r: inference.py starts with step_stride = 0,
\* _get_simple_sequence with step_stride = 1, both with img_idx = 0
InitSelector(impl, n, r) ==
    calc = [op |-> "select", impl |-> impl, n |-> n, img_idx |-> 0,
            step_stride |-> IF impl = "simple" THEN 1 ELSE 0,
            range |-> r, out |-> << >>]

\* analyze_text_action of impl about to be called with a text that
\* contains the keywords t
InitAnalyze(impl, t) ==
    calc = [op |-> "analyze", pc |-> "call", impl |-> impl, text |-> t,
            result |-> "none"]

\* no computation of the synthesis script or of ActionManager is pending
InitScript == calc = [op |-> "idle"]

\* the streamer and the generator under study; the other parts stay as
\* constructed
Init == /\ \E m \in 1..MaxConc : InitStreamer(m)
        /\ InitGenerator
        /\ InitProducer(1)
        /\ InitSystem(1)
        /\ InitFrames(0)
        /\ InitScript

\* ----------------------------------------------------------------- start
\* start() of a freshly constructed streamer (DigitalHumanParagraphSystem and
\* UDPStreamer call start() once and stop() once; a restart is not modelled)
Start ==
    /\ ~is_running /\ sched_pc = "idle" /\ stop_pc = "idle"
    /\ is_running' = TRUE
    /\ sched_pc' = "loop"
    /\ mon_pc' = "loop"
    /\ UNCHANGED << max_concurrent_streams, status, process, pgkill, expired,
                    error_message, stream_queue, active_tasks, completed_tasks,
                    sched_task, mon_used, mon_pos, mon_done,
                    stop_pc, stop_snap, stop_pos, last_ret >>
    /\ UNCHANGED varsNotS

\* ------------------------------------------------------- add_stream_task
\* the effect of one add_stream_task call on the streamer.
\* queue.Queue() has no maxsize: put() never blocks and never raises Full
PutStreamTask ==
    LET t == Len(status) + 1 IN
    /\ status' = Append(status, "PENDING")
    /\ process' = Append(process, "none")
    /\ pgkill' = Append(pgkill, "none")
    /\ expired' = Append(expired, FALSE)
    /\ error_message' = Append(error_message, NoError)
    /\ stream_queue' = Append(stream_queue, t)
    /\ last_ret' = t
    /\ UNCHANGED << is_running, max_concurrent_streams, active_tasks, completed_tasks,
                    sched_pc, sched_task, mon_pc, mon_used, mon_pos, mon_done,
                    stop_pc, stop_snap, stop_pos >>

\* (mutant of add_stream_task: the put waits until a streaming slot is free)
add_stream_task_waits ==
    LET t == Len(status) + 1 IN
    /\ Cardinality(active_tasks) < max_concurrent_streams
    /\ status' = Append(status, "PENDING")
    /\ process' = Append(process, "none")
    /\ pgkill' = Append(pgkill, "none")
    /\ expired' = Append(expired, FALSE)
    /\ error_message' = Append(error_message, NoError)
    /\ stream_queue' = Append(stream_queue, t)
    /\ last_ret' = t
    /\ UNCHANGED << is_running, max_concurrent_streams, active_tasks, completed_tasks,
                    sched_pc, sched_task, mon_pc, mon_used, mon_pos, mon_done,
                    stop_pc, stop_snap, stop_pos >>
    /\ UNCHANGED varsNotS

\* add_stream_task called by a client of the streamer
add_stream_task ==
    /\ PutStreamTask
    /\ UNCHANGED varsNotS

Submit == Len(status) < MaxTasks /\ add_stream_task

\* --------------------------------------------------------- _task_manager
\* (mutant of SchedLoop: the capacity test written <= instead of <)
SchedLoopOffByOne ==
    /\ sched_pc = "loop"
    /\ sched_pc' = IF ~is_running THEN "done"
                   ELSE IF Cardinality(active_tasks) <= max_concurrent_streams
                        THEN "get" ELSE "loop"
    /\ UNCHANGED << is_running, max_concurrent_streams, status, process, pgkill,
                    expired, error_message, stream_queue, active_tasks,
                    completed_tasks, sched_task, mon_pc, mon_used, mon_pos,
                    mon_done, stop_pc, stop_snap, stop_pos, last_ret >>
    /\ UNCHANGED varsNotS

\* while self.is_running: if len(self.active_tasks) < self.max_concurrent_streams
SchedLoop ==
    /\ sched_pc = "loop"
    /\ sched_pc' = IF ~is_running THEN "done"
                   ELSE IF Cardinality(active_tasks) < max_concurrent_streams
                        THEN "get" ELSE "loop"
    /\ UNCHANGED << is_running, max_concurrent_streams, status, process, pgkill,
                    expired, error_message, stream_queue, active_tasks,
                    completed_tasks, sched_task, mon_pc, mon_used, mon_pos,
                    mon_done, stop_pc, stop_snap, stop_pos, last_ret >>
    /\ UNCHANGED varsNotS

\* stream_queue.get(timeout=1.0) raises queue.Empty -> continue
SchedEmpty ==
    /\ sched_pc = "get"
    /\ stream_queue = << >>
    /\ sched_pc' = "loop"
    /\ UNCHANGED << is_running, max_concurrent_streams, status, process, pgkill,
                    expired, error_message, stream_queue, active_tasks,
                    completed_tasks, sched_task, mon_pc, mon_used, mon_pos,
                    mon_done, stop_pc, stop_snap, stop_pos, last_ret >>
    /\ UNCHANGED varsNotS

\* (mutant of start_stream_task: the newest task of the queue is taken)
start_stream_task_lifo(exists, spawn_ok) ==
    LET task == stream_queue[Len(stream_queue)] IN
    /\ sched_pc = "get"
    /\ stream_queue # << >>
    /\ stream_queue' = SubSeq(stream_queue, 1, Len(stream_queue) - 1)
    /\ IF exists /\ spawn_ok
       THEN /\ process' = [process EXCEPT ![task] = "running"]
            /\ status' = [status EXCEPT ![task] = "STREAMING"]
            /\ sched_task' = task
            /\ sched_pc' = "spawned"
            /\ UNCHANGED << error_message, completed_tasks >>
       ELSE /\ status' = [status EXCEPT ![task] = "FAILED"]
            /\ error_message' = [error_message EXCEPT ![task] =
                   [kind |-> IF exists THEN "spawn_failed" ELSE "no_file", len |-> 0]]
            /\ completed_tasks' = completed_tasks \cup {task}
            /\ sched_pc' = "loop"
            /\ UNCHANGED << process, sched_task >>
    /\ UNCHANGED << is_running, max_concurrent_streams, pgkill, expired,
                    active_tasks, mon_pc, mon_used, mon_pos,
                    mon_done, stop_pc, stop_snap, stop_pos, last_ret >>
    /\ UNCHANGED varsNotS

\* task = stream_queue.get(timeout=1.0); _start_stream_task(task) up to, and
\* not including, the store into active_tasks.  Until that store the task
\* object is reachable from the manager thread alone.
\*   exists:   os.path.exists(task.video_path)
\*   spawn_ok: subprocess.Popen did not raise
start_stream_task(exists, spawn_ok) ==
    LET task == Head(stream_queue) IN
    /\ sched_pc = "get"
    /\ stream_queue # << >>
    /\ stream_queue' = Tail(stream_queue)
    /\ IF exists /\ spawn_ok
       THEN /\ process' = [process EXCEPT ![task] = "running"]
            /\ status' = [status EXCEPT ![task] = "STREAMING"]
            /\ sched_task' = task
            /\ sched_pc' = "spawned"
            /\ UNCHANGED << error_message, completed_tasks >>
       ELSE /\ status' = [status EXCEPT ![task] = "FAILED"]
            /\ error_message' = [error_message EXCEPT ![task] =
                   [kind |-> IF exists THEN "spawn_failed" ELSE "no_file", len |-> 0]]
            /\ completed_tasks' = completed_tasks \cup {task}
            /\ sched_pc' = "loop"
            /\ UNCHANGED << process, sched_task >>
    /\ UNCHANGED << is_running, max_concurrent_streams, pgkill, expired,
                    active_tasks, mon_pc, mon_used, mon_pos,
                    mon_done, stop_pc, stop_snap, stop_pos, last_ret >>
    /\ UNCHANGED varsNotS

SchedStart == \E exists \in BOOLEAN, spawn_ok \in BOOLEAN :
                  start_stream_task(exists, spawn_ok)

\* self.active_tasks[task.task_id] = task
SchedInsert ==
    /\ sched_pc = "spawned"
    /\ active_tasks' = active_tasks \cup {sched_task}
    /\ sched_pc' = "loop"
    /\ sched_task' = 0
    /\ UNCHANGED << is_running, max_concurrent_streams, status, process, pgkill,
                    expired, error_message, stream_queue, completed_tasks,
                    mon_pc, mon_used, mon_pos, mon_done,
                    stop_pc, stop_snap, stop_pos, last_ret >>
    /\ UNCHANGED varsNotS

\* ------------------------------------------------------- child processes
\* a streaming child process exits by itself with return code 0 or non-zero
ProcExit(t, ok) ==
    /\ t \in Tasks
    /\ process[t] = "running"
    /\ process' = [process EXCEPT ![t] = IF ok THEN "exit0" ELSE "exitN"]
    /\ UNCHANGED << is_running, max_concurrent_streams, status, pgkill, expired,
                    error_message, stream_queue, active_tasks, completed_tasks,
                    sched_pc, sched_task, mon_pc, mon_used, mon_pos, mon_done,
                    stop_pc, stop_snap, stop_pos, last_ret >>
    /\ UNCHANGED varsNotS

ProcessExits == \E t \in Tasks, ok \in BOOLEAN : ProcExit(t, ok)

\* wall-clock time passes task.start_time + stream_timeout while the child
\* still runs (once it has exited the monitor's poll branch is taken first)
Expire(t) ==
    /\ t \in Tasks
    /\ status[t] = "STREAMING"
    /\ process[t] = "running"
    /\ ~expired[t]
    /\ expired' = [expired EXCEPT ![t] = TRUE]
    /\ UNCHANGED << is_running, max_concurrent_streams, status, process, pgkill,
                    error_message, stream_queue, active_tasks, completed_tasks,
                    sched_pc, sched_task, mon_pc, mon_used, mon_pos, mon_done,
                    stop_pc, stop_snap, stop_pos, last_ret >>
    /\ UNCHANGED varsNotS

TimePasses == \E t \in Tasks : Expire(t)

\* ------------------------------------------------------ _process_monitor
\* while self.is_running: ... for task_id, task in self.active_tasks.items():
MonLoop ==
    /\ mon_pc = "loop"
    /\ IF is_running
       THEN /\ mon_pc' = "iter"
            /\ mon_used' = Cardinality(active_tasks)
            /\ mon_pos' = 0
            /\ mon_done' = {}
       ELSE /\ mon_pc' = "done"
            /\ UNCHANGED << mon_used, mon_pos, mon_done >>
    /\ UNCHANGED << is_running, max_concurrent_streams, status, process, pgkill,
                    expired, error_message, stream_queue, active_tasks,
                    completed_tasks, sched_pc, sched_task,
                    stop_pc, stop_snap, stop_pos, last_ret >>
    /\ UNCHANGED varsNotS

\* the error message recorded for a child that exited with a non-zero code:
\* the truncated stderr text, or the exit code when communicate/decode raises
FailureMessage(readable, n) ==
    IF readable THEN [kind |-> "stderr", len |-> Truncate(n)]
                ELSE [kind |-> "exit_code", len |-> 0]

\* the status the monitor assigns to a child whose poll() is not None
ExitStatus(rc) == IF rc = "0" THEN "COMPLETED" ELSE "FAILED"

\* (mutant of MonVisit: the elapsed-time test is missing)
MonVisitNoTimeout(t) ==
    IF process[t] = "none" \/ Poll(process[t]) = "None"
    THEN UNCHANGED << status, process, pgkill, error_message, mon_done >>
    ELSE /\ status' = [status EXCEPT ![t] = ExitStatus(Poll(process[t]))]
         /\ IF Poll(process[t]) = "0"
            THEN UNCHANGED error_message
            ELSE \E readable \in BOOLEAN, n \in StderrLens :
                   error_message' = [error_message EXCEPT ![t] = FailureMessage(readable, n)]
         /\ mon_done' = mon_done \cup {t}
         /\ UNCHANGED << process, pgkill >>

\* body of the for loop for one entry of active_tasks
MonVisit(t) ==
    IF process[t] = "none"
    THEN UNCHANGED << status, process, pgkill, error_message, mon_done >>
    ELSE IF Poll(process[t]) # "None"
    THEN /\ status' = [status EXCEPT ![t] = ExitStatus(Poll(process[t]))]
         /\ IF Poll(process[t]) = "0"
            THEN UNCHANGED error_message
            ELSE \E readable \in BOOLEAN, n \in StderrLens :
                   error_message' = [error_message EXCEPT ![t] = FailureMessage(readable, n)]
         /\ mon_done' = mon_done \cup {t}
         /\ UNCHANGED << process, pgkill >>
    ELSE IF expired[t]
    THEN /\ \E diesOnTerm \in BOOLEAN :
               pgkill' = [pgkill EXCEPT ![t] = KillGroup(diesOnTerm)]
         /\ process' = [process EXCEPT ![t] = "killed"]
         /\ status' = [status EXCEPT ![t] = "TIMEOUT"]
         /\ error_message' = [error_message EXCEPT ![t] = [kind |-> "timeout", len |-> 0]]
         /\ mon_done' = mon_done \cup {t}
    ELSE UNCHANGED << status, process, pgkill, error_message, mon_done >>

\* one step of the dict iterator: RuntimeError when the dict changed size
\* since the iterator was created, else the next entry or the end of the loop.
\* (The iterator is dropped when the loop is left: its fields are reset.)
MonNext ==
    /\ mon_pc = "iter"
    /\ IF Cardinality(active_tasks) # mon_used
       THEN /\ mon_pc' = "exc"
            /\ mon_done' = {}
            /\ mon_used' = 0 /\ mon_pos' = 0
            /\ UNCHANGED << status, process, pgkill, error_message >>
       ELSE LET rest == {t \in active_tasks : t > mon_pos} IN
            IF rest = {}
            THEN /\ mon_pc' = "move"
                 /\ mon_used' = 0 /\ mon_pos' = 0
                 /\ UNCHANGED << status, process, pgkill, error_message, mon_done >>
            ELSE /\ MonVisit(Min(rest))
                 /\ mon_pos' = Min(rest)
                 /\ mon_pc' = "iter"
                 /\ UNCHANGED mon_used
    /\ UNCHANGED << is_running, max_concurrent_streams, expired, stream_queue,
                    active_tasks, completed_tasks, sched_pc, sched_task,
                    stop_pc, stop_snap, stop_pos, last_ret >>
    /\ UNCHANGED varsNotS

\* (mutant of MonMove: the task is stored in completed_tasks and never popped
\* from active_tasks)
MonMoveKeepsSlot ==
    /\ mon_pc = "move"
    /\ completed_tasks' = completed_tasks \cup mon_done
    /\ mon_done' = {}
    /\ mon_pc' = "loop"
    /\ UNCHANGED << is_running, max_concurrent_streams, status, process, pgkill,
                    expired, error_message, stream_queue, active_tasks, sched_pc,
                    sched_task, mon_used, mon_pos, stop_pc, stop_snap, stop_pos,
                    last_ret >>
    /\ UNCHANGED varsNotS

\* for task_id in completed_tasks: pop from active_tasks, store in completed_tasks
MonMove ==
    /\ mon_pc = "move"
    /\ active_tasks' = active_tasks \ mon_done
    /\ completed_tasks' = completed_tasks \cup mon_done
    /\ mon_done' = {}
    /\ mon_pc' = "loop"
    /\ UNCHANGED << is_running, max_concurrent_streams, status, process, pgkill,
                    expired, error_message, stream_queue, sched_pc, sched_task,
                    mon_used, mon_pos, stop_pc, stop_snap, stop_pos, last_ret >>
    /\ UNCHANGED varsNotS

\* (mutant of MonExcept: the exception ends the monitor thread)
MonExceptEndsThread ==
    /\ mon_pc = "exc"
    /\ mon_pc' = "done"
    /\ UNCHANGED << is_running, max_concurrent_streams, status, process, pgkill,
                    expired, error_message, stream_queue, active_tasks,
                    completed_tasks, sched_pc, sched_task, mon_used, mon_pos,
                    mon_done, stop_pc, stop_snap, stop_pos, last_ret >>
    /\ UNCHANGED varsNotS

\* except Exception: log, sleep(1.0), next iteration of the while loop
MonExcept ==
    /\ mon_pc = "exc"
    /\ mon_pc' = "loop"
    /\ UNCHANGED << is_running, max_concurrent_streams, status, process, pgkill,
                    expired, error_message, stream_queue, active_tasks,
                    completed_tasks, sched_pc, sched_task, mon_used, mon_pos,
                    mon_done, stop_pc, stop_snap, stop_pos, last_ret >>
    /\ UNCHANGED varsNotS

\* ------------------------------------------------------------------ stop
\* stop() of a started streamer:
\* self.is_running = False; for task in self.active_tasks.values():
StopCall ==
    /\ stop_pc = "idle"
    /\ is_running
    /\ is_running' = FALSE
    /\ stop_snap' = active_tasks
    /\ stop_pos' = 0
    /\ stop_pc' = "iter"
    /\ UNCHANGED << max_concurrent_streams, status, process, pgkill, expired,
                    error_message, stream_queue, active_tasks, completed_tasks,
                    sched_pc, sched_task, mon_pc, mon_used, mon_pos, mon_done,
                    last_ret >>
    /\ UNCHANGED varsNotS

\* terminate(); wait(timeout=2); kill() when the wait raises
TerminateThenKill(p) == IF p = "running" THEN "killed" ELSE p

\* one step of the iterator over active_tasks.values().  A changed size
\* raises RuntimeError out of stop(); changed keys of the same size are
\* detected or not depending on the interpreter.
\* (The iterator is dropped when the loop is left: its fields are reset.)
StopNext ==
    /\ stop_pc = "iter"
    /\ IF Cardinality(active_tasks) # Cardinality(stop_snap)
       THEN /\ stop_pc' = "raised"
            /\ stop_snap' = {} /\ stop_pos' = 0
            /\ UNCHANGED process
       ELSE LET rest == {t \in active_tasks : t > stop_pos} IN
            IF rest = {}
            THEN /\ \/ stop_pc' = "join"
                    \/ active_tasks # stop_snap /\ stop_pc' = "raised"
                 /\ stop_snap' = {} /\ stop_pos' = 0
                 /\ UNCHANGED process
            ELSE /\ process' = [process EXCEPT ![Min(rest)] =
                                    TerminateThenKill(process[Min(rest)])]
                 /\ stop_pos' = Min(rest)
                 /\ stop_pc' = "iter"
                 /\ UNCHANGED stop_snap
    /\ UNCHANGED << is_running, max_concurrent_streams, status, pgkill, expired,
                    error_message, stream_queue, active_tasks, completed_tasks,
                    sched_pc, sched_task, mon_pc, mon_used, mon_pos, mon_done,
                    last_ret >>
    /\ UNCHANGED varsNotS

\* manager_thread.join(timeout=5); monitor_thread.join(timeout=5); return.
\* Each join ends when its thread has ended or when its timeout has passed.
StopJoin ==
    /\ stop_pc = "join"
    /\ \E manager_timeout \in BOOLEAN : manager_timeout \/ sched_pc = "done"
    /\ \E monitor_timeout \in BOOLEAN : monitor_timeout \/ mon_pc = "done"
    /\ stop_pc' = "returned"
    /\ UNCHANGED << is_running, max_concurrent_streams, status, process, pgkill,
                    expired, error_message, stream_queue, active_tasks,
                    completed_tasks, sched_pc, sched_task, mon_pc, mon_used,
                    mon_pos, mon_done, stop_snap, stop_pos, last_ret >>
    /\ UNCHANGED varsNotS

\* ---------------------------------------------------- generate_unique_id
\* text hashes of the script units handed to the workers (md5(text)[:8])
TextHashes == {1, 2}

\* every call of one run falls into the same second: strftime("%Y%m%d%H%M%S")
Timestamp == << 2, 0, 2, 5, 0, 1, 0, 1, 1, 2, 0, 0, 0, 0 >>

RECURSIVE Digits(_)
\* decimal digits of n >= 0, most significant first
Digits(n) == IF n < 10 THEN << n >> ELSE Append(Digits(n \div 10), n % 10)

\* f"{counter:03d}": zero-padded to at least three digits
Format03d(n) ==
    LET d == Digits(n) IN
    IF Len(d) >= 3 THEN d ELSE [i \in 1..(3 - Len(d)) |-> 0] \o d

\* f"{timestamp}_{text_hash}_{counter:03d}" ("_" written as -1)
FormatId(h, n) == Timestamp \o << -1, h, -1 >> \o Format03d(n)

\* timestamp and text_hash computed; the worker reaches `with self.counter_lock`
GenCall(w) ==
    /\ gen_pc[w] = "idle"
    /\ gen_calls < MaxCalls
    /\ \E h \in TextHashes : gen_text' = [gen_text EXCEPT ![w] = h]
    /\ gen_calls' = gen_calls + 1
    /\ gen_pc' = [gen_pc EXCEPT ![w] = "acquire"]
    /\ UNCHANGED << video_counter, counter_lock, gen_reg, gen_counter, unique_ids >>
    /\ UNCHANGED varsNotG

\* (mutant of GenAcquire: the counter is updated without taking the lock)
GenAcquireNoLock(w) ==
    /\ gen_pc[w] = "acquire"
    /\ gen_pc' = [gen_pc EXCEPT ![w] = "load"]
    /\ UNCHANGED << video_counter, counter_lock, gen_text, gen_reg, gen_counter,
                    gen_calls, unique_ids >>
    /\ UNCHANGED varsNotG

\* counter_lock.__enter__: blocks while another worker holds the lock
GenAcquire(w) ==
    /\ gen_pc[w] = "acquire"
    /\ counter_lock = 0
    /\ counter_lock' = w
    /\ gen_pc' = [gen_pc EXCEPT ![w] = "load"]
    /\ UNCHANGED << video_counter, gen_text, gen_reg, gen_counter, gen_calls,
                    unique_ids >>
    /\ UNCHANGED varsNotG

\* self.video_counter += 1, first half: load the attribute
GenLoad(w) ==
    /\ gen_pc[w] = "load"
    /\ gen_reg' = [gen_reg EXCEPT ![w] = video_counter]
    /\ gen_pc' = [gen_pc EXCEPT ![w] = "store"]
    /\ UNCHANGED << video_counter, counter_lock, gen_text, gen_counter, gen_calls,
                    unique_ids >>
    /\ UNCHANGED varsNotG

\* self.video_counter += 1, second half: store the sum
GenStore(w) ==
    /\ gen_pc[w] = "store"
    /\ video_counter' = gen_reg[w] + 1
    /\ gen_pc' = [gen_pc EXCEPT ![w] = "copy"]
    /\ UNCHANGED << counter_lock, gen_text, gen_reg, gen_counter, gen_calls,
                    unique_ids >>
    /\ UNCHANGED varsNotG

\* counter = self.video_counter, then counter_lock.__exit__
GenCopy(w) ==
    /\ gen_pc[w] = "copy"
    /\ gen_counter' = [gen_counter EXCEPT ![w] = video_counter]
    /\ counter_lock' = IF counter_lock = w THEN 0 ELSE counter_lock
    /\ gen_reg' = [gen_reg EXCEPT ![w] = 0]
    /\ gen_pc' = [gen_pc EXCEPT ![w] = "return"]
    /\ UNCHANGED << video_counter, gen_text, gen_calls, unique_ids >>
    /\ UNCHANGED varsNotG

\* return f"{timestamp}_{text_hash}_{counter:03d}"
GenReturn(w) ==
    /\ gen_pc[w] = "return"
    /\ unique_ids' = Append(unique_ids, FormatId(gen_text[w], gen_counter[w]))
    /\ gen_text' = [gen_text EXCEPT ![w] = 0]
    /\ gen_counter' = [gen_counter EXCEPT ![w] = 0]
    /\ gen_pc' = [gen_pc EXCEPT ![w] = "idle"]
    /\ UNCHANGED << video_counter, counter_lock, gen_reg, gen_calls >>
    /\ UNCHANGED varsNotG

\* ------------------------------------- producer of the paragraph generator
\* start(): self.running = True; the producer thread is started; then the
\* bootstrap paragraph is generated and enqueued by the caller of start()
ParaStart ==
    /\ ~pg_running /\ pg_pc = "idle"
    /\ pg_running' = TRUE
    /\ pg_pc' = "loop"
    /\ pg_boot' = "put"
    /\ UNCHANGED << pg_size, pg_queue, pg_text, pg_made, pg_dropped, pg_warnings >>
    /\ UNCHANGED varsNotT

\* start(): bootstrap_text = generate_paragraph_script(...);
\* text_queue.put_nowait(bootstrap_text); queue.Full is caught by
\* `except Exception` and logged as a warning
ParaBootstrap ==
    /\ pg_boot = "put"
    /\ pg_made < MaxUnits
    /\ pg_made' = pg_made + 1
    /\ IF Len(pg_queue) < pg_size
       THEN /\ pg_queue' = Append(pg_queue, pg_made + 1)
            /\ UNCHANGED << pg_dropped, pg_warnings >>
       ELSE /\ pg_dropped' = pg_dropped \cup {pg_made + 1}
            /\ pg_warnings' = pg_warnings + 1
            /\ UNCHANGED pg_queue
    /\ pg_boot' = "returned"
    /\ UNCHANGED << pg_running, pg_size, pg_pc, pg_text >>
    /\ UNCHANGED varsNotT

\* while self.running: paragraph_text = generate_paragraph_script(...)
ParaLoop ==
    /\ pg_pc = "loop"
    /\ IF pg_running
       THEN /\ pg_made < MaxUnits
            /\ pg_made' = pg_made + 1
            /\ pg_text' = pg_made + 1
            /\ pg_pc' = "put"
       ELSE /\ pg_pc' = "done"
            /\ UNCHANGED << pg_made, pg_text >>
    /\ UNCHANGED << pg_running, pg_size, pg_queue, pg_boot, pg_dropped, pg_warnings >>
    /\ UNCHANGED varsNotT

\* (mutant of ParaPut: put without a timeout, waiting for a free slot)
ParaPutBlocks ==
    /\ pg_pc = "put"
    /\ Len(pg_queue) < pg_size
    /\ pg_queue' = Append(pg_queue, pg_text)
    /\ pg_text' = 0
    /\ pg_pc' = "loop"
    /\ UNCHANGED << pg_running, pg_size, pg_boot, pg_made, pg_dropped, pg_warnings >>
    /\ UNCHANGED varsNotT

\* text_queue.put(paragraph_text, timeout=5.0); time.sleep(paragraph_interval)
\* or, when the queue is still full after 5 seconds,
\* except queue.Full: logger.warning(...); time.sleep(5)
ParaPut ==
    /\ pg_pc = "put"
    /\ IF Len(pg_queue) < pg_size
       THEN /\ pg_queue' = Append(pg_queue, pg_text)
            /\ UNCHANGED << pg_dropped, pg_warnings >>
       ELSE /\ pg_dropped' = pg_dropped \cup {pg_text}
            /\ pg_warnings' = pg_warnings + 1
            /\ UNCHANGED pg_queue
    /\ pg_text' = 0
    /\ pg_pc' = "loop"
    /\ UNCHANGED << pg_running, pg_size, pg_boot, pg_made >>
    /\ UNCHANGED varsNotT

\* stop(): self.running = False (the joins change nothing modelled here)
ParaStop ==
    /\ pg_running
    /\ pg_running' = FALSE
    /\ UNCHANGED << pg_size, pg_queue, pg_pc, pg_text, pg_boot, pg_made,
                    pg_dropped, pg_warnings >>
    /\ UNCHANGED varsNotT

\* ------------------------------------ DigitalHumanParagraphSystem (dh_system)
\* start(): self.running = True; the text thread, the video worker threads
\* and the status thread are started, and async_streamer.start() is called
\* (config.enable_streaming is True)
SysStart ==
    /\ ~running /\ text_pc = "idle" /\ sys_stop_pc = "idle"
    /\ running' = TRUE
    /\ text_pc' = "loop"
    /\ wk_pc' = [w \in 1..parallel_workers |-> "loop"]
    /\ smon_pc' = "loop"
    /\ is_running' = TRUE
    /\ sched_pc' = "loop"
    /\ mon_pc' = "loop"
    /\ UNCHANGED << max_concurrent_streams, status, process, pgkill, expired,
                    error_message, stream_queue, active_tasks, completed_tasks,
                    sched_task, mon_used, mon_pos, mon_done,
                    stop_pc, stop_snap, stop_pos, last_ret >>
    /\ UNCHANGED << text_queue_size, text_queue, text_made, wk_text, wk_base,
                    takes, owners, outcome, files, submitted, sys_stop_pc >>
    /\ UNCHANGED << varsG, varsOther >>

\* _text_generation_worker: while self.running: if self.text_queue.full():
\* time.sleep(1); continue
TextLoop ==
    /\ text_pc = "loop"
    /\ (running /\ Len(text_queue) < text_queue_size) => text_made < MaxTexts
    /\ text_pc' = IF ~running THEN "done"
                  ELSE IF Len(text_queue) >= text_queue_size THEN "loop"
                  ELSE "gen"
    /\ UNCHANGED << running, text_queue_size, text_queue, text_made, wk_pc,
                    wk_text, wk_base, takes, owners, outcome, files, submitted,
                    smon_pc, sys_stop_pc >>
    /\ UNCHANGED << varsS, varsG, varsOther >>

\* paragraph = generate_paragraph_script(...); self.text_queue.put(paragraph)
\* (a put without timeout: it waits while the queue is full);
\* time.sleep(paragraph_interval)
TextPut ==
    /\ text_pc = "gen"
    /\ Len(text_queue) < text_queue_size
    /\ text_made' = text_made + 1
    /\ text_queue' = Append(text_queue, text_made + 1)
    /\ text_pc' = "loop"
    /\ UNCHANGED << running, text_queue_size, wk_pc, wk_text, wk_base, takes,
                    owners, outcome, files, submitted, smon_pc, sys_stop_pc >>
    /\ UNCHANGED << varsS, varsG, varsOther >>

\* _video_generation_worker: while self.running:
WorkerLoop(w) ==
    /\ wk_pc[w] = "loop"
    /\ wk_pc' = [wk_pc EXCEPT ![w] = IF running THEN "get" ELSE "done"]
    /\ UNCHANGED << running, text_queue_size, text_queue, text_pc, text_made,
                    wk_text, wk_base, takes, owners, outcome, files, submitted,
                    smon_pc, sys_stop_pc >>
    /\ UNCHANGED << varsS, varsG, varsOther >>

\* (mutant of WorkerGet: the text is read from the queue and left in it)
WorkerGetPeeks(w) ==
    /\ wk_pc[w] = "get"
    /\ IF text_queue = << >>
       THEN /\ wk_pc' = [wk_pc EXCEPT ![w] = "loop"]
            /\ UNCHANGED << text_queue, wk_text, wk_base, takes, owners,
                            video_counter >>
       ELSE /\ takes[Head(text_queue)] < parallel_workers
            /\ wk_text' = [wk_text EXCEPT ![w] = Head(text_queue)]
            /\ UNCHANGED text_queue
            /\ takes' = [takes EXCEPT ![Head(text_queue)] = @ + 1]
            /\ owners' = [owners EXCEPT ![Head(text_queue)] = @ \cup {w}]
            /\ video_counter < MaxTexts
            /\ video_counter' = video_counter + 1
            /\ wk_base' = [wk_base EXCEPT ![w] = video_counter + 1]
            /\ wk_pc' = [wk_pc EXCEPT ![w] = "audio"]
    /\ UNCHANGED << running, text_queue_size, text_pc, text_made, outcome,
                    files, submitted, smon_pc, sys_stop_pc >>
    /\ UNCHANGED << counter_lock, gen_pc, gen_text, gen_reg, gen_counter,
                    gen_calls, unique_ids >>
    /\ UNCHANGED << varsS, varsOther >>

\* text = self.text_queue.get(timeout=1): queue.Empty after one second ->
\* continue; else base_name = self.generator.generate_unique_id(text), the
\* next value of the generator's counter
WorkerGet(w) ==
    /\ wk_pc[w] = "get"
    /\ IF text_queue = << >>
       THEN /\ wk_pc' = [wk_pc EXCEPT ![w] = "loop"]
            /\ UNCHANGED << text_queue, wk_text, wk_base, takes, owners,
                            video_counter >>
       ELSE /\ wk_text' = [wk_text EXCEPT ![w] = Head(text_queue)]
            /\ text_queue' = Tail(text_queue)
            /\ takes' = [takes EXCEPT ![Head(text_queue)] = @ + 1]
            /\ owners' = [owners EXCEPT ![Head(text_queue)] = @ \cup {w}]
            /\ video_counter' = video_counter + 1
            /\ wk_base' = [wk_base EXCEPT ![w] = video_counter + 1]
            /\ wk_pc' = [wk_pc EXCEPT ![w] = "audio"]
    /\ UNCHANGED << running, text_queue_size, text_pc, text_made, outcome,
                    files, submitted, smon_pc, sys_stop_pc >>
    /\ UNCHANGED << counter_lock, gen_pc, gen_text, gen_reg, gen_counter,
                    gen_calls, unique_ids >>
    /\ UNCHANGED << varsS, varsOther >>

\* generate_paragraph_audio(text, base_name): the TTS answer is written to
\* temp_dir/{base_name}.wav and the path returned, or None is returned (status
\* code other than 200, request exception) and the worker logs and continues
generate_paragraph_audio(w, tts_ok) ==
    /\ wk_pc[w] = "audio"
    /\ IF tts_ok
       THEN /\ files' = files \cup {<< wk_base[w], "audio" >>}
            /\ wk_pc' = [wk_pc EXCEPT ![w] = "video"]
            /\ UNCHANGED << outcome, wk_text, wk_base >>
       ELSE /\ outcome' = [outcome EXCEPT ![wk_base[w]] = "audio_failed"]
            /\ wk_pc' = [wk_pc EXCEPT ![w] = "loop"]
            /\ wk_text' = [wk_text EXCEPT ![w] = 0]
            /\ wk_base' = [wk_base EXCEPT ![w] = 0]
            /\ UNCHANGED files
    /\ UNCHANGED << running, text_queue_size, text_queue, text_pc, text_made,
                    takes, owners, submitted, smon_pc, sys_stop_pc >>
    /\ UNCHANGED << varsS, varsG, varsOther >>

WorkerAudio(w) == \E tts_ok \in BOOLEAN : generate_paragraph_audio(w, tts_ok)

\* the steps of generate_video that can fail ("none": all succeed)
VideoSteps == {"hubert", "inference", "mux", "none"}

\* cleanup_intermediate_files(audio_path, hubert_path, video_path, script_path)
cleanup_intermediate_files(fs, b) ==
    fs \ {<< b, "audio" >>, << b, "hubert" >>, << b, "raw" >>, << b, "script" >>}

\* (mutant of FilesAfterVideo: the clean-up after a successful mux is missing)
FilesAfterVideoNoCleanup(fs, b, fail_at) ==
    CASE fail_at = "hubert"    -> fs
      [] fail_at = "inference" -> fs \cup {<< b, "hubert" >>, << b, "script" >>}
      [] fail_at = "mux"       -> fs \cup {<< b, "hubert" >>, << b, "script" >>,
                                           << b, "raw" >>}
      [] OTHER                 -> fs \cup {<< b, "hubert" >>, << b, "script" >>,
                                           << b, "raw" >>, << b, "final" >>}

\* the files on disk when generate_video(audio_path, text, base_name) returns.
\*   fail_at: the step that fails (non-zero return code, missing output
\*            file, subprocess timeout or another exception); the failing
\*            step leaves no output file, the steps before it left theirs
\* Every failure returns None at once; only the success path cleans up.
FilesAfterVideo(fs, b, fail_at) ==
    CASE fail_at = "hubert"    -> fs
      [] fail_at = "inference" -> fs \cup {<< b, "hubert" >>, << b, "script" >>}
      [] fail_at = "mux"       -> fs \cup {<< b, "hubert" >>, << b, "script" >>,
                                           << b, "raw" >>}
      [] OTHER                 -> cleanup_intermediate_files(
                                     fs \cup {<< b, "hubert" >>, << b, "script" >>,
                                              << b, "raw" >>, << b, "final" >>}, b)

\* (mutant of generate_video: a unit whose video failed is submitted too)
generate_video_submits_failed(w, fail_at) ==
    /\ wk_pc[w] = "video"
    /\ files' = FilesAfterVideo(files, wk_base[w], fail_at)
    /\ outcome' = [outcome EXCEPT ![wk_base[w]] =
                       IF fail_at = "none" THEN "ok" ELSE "video_failed"]
    /\ wk_pc' = [wk_pc EXCEPT ![w] = "submit"]
    /\ UNCHANGED << wk_text, wk_base >>
    /\ UNCHANGED << running, text_queue_size, text_queue, text_pc, text_made,
                    takes, owners, submitted, smon_pc, sys_stop_pc >>
    /\ UNCHANGED << varsS, varsG, varsOther >>

\* video_path = self.generator.generate_video(audio_path, text, base_name);
\* if not video_path: log, continue
generate_video(w, fail_at) ==
    /\ wk_pc[w] = "video"
    /\ files' = FilesAfterVideo(files, wk_base[w], fail_at)
    /\ IF fail_at = "none"
       THEN /\ outcome' = [outcome EXCEPT ![wk_base[w]] = "ok"]
            /\ wk_pc' = [wk_pc EXCEPT ![w] = "submit"]
            /\ UNCHANGED << wk_text, wk_base >>
       ELSE /\ outcome' = [outcome EXCEPT ![wk_base[w]] = "video_failed"]
            /\ wk_pc' = [wk_pc EXCEPT ![w] = "loop"]
            /\ wk_text' = [wk_text EXCEPT ![w] = 0]
            /\ wk_base' = [wk_base EXCEPT ![w] = 0]
    /\ UNCHANGED << running, text_queue_size, text_queue, text_pc, text_made,
                    takes, owners, submitted, smon_pc, sys_stop_pc >>
    /\ UNCHANGED << varsS, varsG, varsOther >>

WorkerVideo(w) == \E fail_at \in VideoSteps : generate_video(w, fail_at)

\* task_id = self.async_streamer.add_stream_task(video_path, audio_path);
\* the worker logs the id and starts its next iteration
WorkerSubmit(w) ==
    /\ wk_pc[w] = "submit"
    /\ PutStreamTask
    /\ submitted' = Append(submitted, wk_base[w])
    /\ wk_pc' = [wk_pc EXCEPT ![w] = "loop"]
    /\ wk_text' = [wk_text EXCEPT ![w] = 0]
    /\ wk_base' = [wk_base EXCEPT ![w] = 0]
    /\ UNCHANGED << running, text_queue_size, text_queue, text_pc, text_made,
                    takes, owners, outcome, files, smon_pc, sys_stop_pc >>
    /\ UNCHANGED << varsG, varsOther >>

\* _stream_monitor_worker: while self.running: sleep(30); log get_queue_info()
SysMonLoop ==
    /\ smon_pc = "loop"
    /\ smon_pc' = IF running THEN "loop" ELSE "done"
    /\ UNCHANGED << running, text_queue_size, text_queue, text_pc, text_made,
                    wk_pc, wk_text, wk_base, takes, owners, outcome, files,
                    submitted, sys_stop_pc >>
    /\ UNCHANGED << varsS, varsG, varsOther >>

\* stop(): if not self.running: return; self.running = False
SysStopCall ==
    /\ running /\ sys_stop_pc = "idle"
    /\ running' = FALSE
    /\ sys_stop_pc' = "streamer"
    /\ UNCHANGED << text_queue_size, text_queue, text_pc, text_made, wk_pc,
                    wk_text, wk_base, takes, owners, outcome, files, submitted,
                    smon_pc >>
    /\ UNCHANGED << varsS, varsG, varsOther >>

\* stop(): self.async_streamer.stop(), one step of it
SysStopStreamer ==
    /\ sys_stop_pc = "streamer"
    /\ (StopCall \/ StopNext \/ StopJoin)

\* stop(): an exception raised by self.async_streamer.stop() is not caught
SysStopRaised ==
    /\ sys_stop_pc = "streamer"
    /\ stop_pc = "raised"
    /\ sys_stop_pc' = "raised"
    /\ UNCHANGED << running, text_queue_size, text_queue, text_pc, text_made,
                    wk_pc, wk_text, wk_base, takes, owners, outcome, files,
                    submitted, smon_pc >>
    /\ UNCHANGED << varsS, varsG, varsOther >>

\* stop(): for thread in self.threads: if thread.is_alive():
\* thread.join(timeout=5) -- each join ends when the thread has ended or
\* after 5 seconds; self.threads = []; return
SysJoin ==
    /\ sys_stop_pc = "streamer"
    /\ stop_pc = "returned"
    /\ sys_stop_pc' = "returned"
    /\ UNCHANGED << running, text_queue_size, text_queue, text_pc, text_made,
                    wk_pc, wk_text, wk_base, takes, owners, outcome, files,
                    submitted, smon_pc >>
    /\ UNCHANGED << varsS, varsG, varsOther >>

\* ------------------------------------------------- frame loop of a run
\* what one iteration of `for i in range(audio_feats.shape[0])` does:
\*   "write": the frame is composed and video_writer.write(img) is called
\*   "skip":  fewer than 10 landmarks, or an invalid or empty crop: continue
\*   "raise": a statement of the body raises (unreadable image or landmark
\*            file, model error); nothing catches it and the script ends
FrameOutcomes == {"write", "skip", "raise"}

\* (mutant of FrameBody: a composed frame is put in front of the frames
\* written before it)
FrameBodyPrepends(r) ==
    /\ fr_pc = "loop"
    /\ fr_i < fr_n
    /\ CASE r = "write" -> /\ fr_written' = << fr_i >> \o fr_written
                           /\ fr_i' = fr_i + 1
                           /\ UNCHANGED << fr_pc, fr_skipped >>
         [] r = "skip"  -> /\ fr_skipped' = fr_skipped \cup {fr_i}
                           /\ fr_i' = fr_i + 1
                           /\ UNCHANGED << fr_pc, fr_written >>
         [] OTHER       -> /\ fr_pc' = "raised"
                           /\ UNCHANGED << fr_i, fr_written, fr_skipped >>
    /\ UNCHANGED fr_n
    /\ UNCHANGED varsNotF

\* one iteration of the frame loop with outcome r
FrameBody(r) ==
    /\ fr_pc = "loop"
    /\ fr_i < fr_n
    /\ CASE r = "write" -> /\ fr_written' = Append(fr_written, fr_i)
                           /\ fr_i' = fr_i + 1
                           /\ UNCHANGED << fr_pc, fr_skipped >>
         [] r = "skip"  -> /\ fr_skipped' = fr_skipped \cup {fr_i}
                           /\ fr_i' = fr_i + 1
                           /\ UNCHANGED << fr_pc, fr_written >>
         [] OTHER       -> /\ fr_pc' = "raised"
                           /\ UNCHANGED << fr_i, fr_written, fr_skipped >>
    /\ UNCHANGED fr_n
    /\ UNCHANGED varsNotF

\* what an iteration can meet
\*   "ok":               image and landmarks read, valid crop, model runs
\*   "image_unreadable": cv2.imread(img_path) returns None
\*   "lms_read_error":   open(lms_path) or the parsing of a line raises
\*   "few_landmarks":    len(lms_list) < 10
\*   "degenerate_crop":  width <= 0 or height <= 0, or an empty crop
\*   "model_error":      the network call raises
FrameConds == {"ok", "image_unreadable", "lms_read_error", "few_landmarks",
               "degenerate_crop", "model_error"}

\* how the body ends for each of them: img.shape of None raises
\* AttributeError, open() raises OSError, and the body has no try
FrameOutcome(c) ==
    CASE c = "ok" -> "write"
      [] c \in {"few_landmarks", "degenerate_crop"} -> "skip"
      [] OTHER -> "raise"

FrameStep == \E c \in FrameConds : FrameBody(FrameOutcome(c))

\* the range is exhausted: video_writer.release()
FrameRelease ==
    /\ fr_pc = "loop"
    /\ fr_i = fr_n
    /\ fr_pc' = "released"
    /\ UNCHANGED << fr_n, fr_i, fr_written, fr_skipped >>
    /\ UNCHANGED varsNotF

\* ----------------------------------------------------- get_audio_features
\* Python's max(a, b) and min(a, b)
max(a, b) == IF a >= b THEN a ELSE b

min(a, b) == IF a <= b THEN a ELSE b

\* a bound k of a slice of a sequence of n rows, as Python normalises it: a
\* negative bound counts from the end, and the result is clipped to 0..n
SliceBound(k, n) == IF k < 0 THEN max(k + n, 0) ELSE min(k, n)

\* s[a:b] of Python and numpy, for a sequence s indexed from 0
PySlice(s, a, b) ==
    LET lo == SliceBound(a, Len(s))
        hi == SliceBound(b, Len(s))
    IN  IF lo < hi THEN SubSeq(s, lo + 1, hi) ELSE << >>

\* torch.zeros_like(t): as many rows as t has, all zero
zeros_like(t) == [k \in 1..Len(t) |-> 0]

\* a feature sequence of n rows
Features(n) == [k \in 1..n |-> k]

\* (mutant of get_audio_features: the window is index-4 .. index+5)
get_audio_features_wide(features, index) ==
    LET left0 == index - 4
        right0 == index + 5
        pad_left == IF left0 < 0 THEN -left0 ELSE 0
        left == IF left0 < 0 THEN 0 ELSE left0
        pad_right == IF right0 > Len(features) THEN right0 - Len(features) ELSE 0
        right == IF right0 > Len(features) THEN Len(features) ELSE right0
        auds0 == PySlice(features, left, right)
        auds1 == IF pad_left > 0
                 THEN zeros_like(PySlice(auds0, 0, pad_left)) \o auds0
                 ELSE auds0
    IN  IF pad_right > 0
        THEN auds1 \o zeros_like(PySlice(auds1, 0, pad_right))
        ELSE auds1

\* get_audio_features(features, index): the rows index-4 .. index+3, the
\* part of the window outside the sequence filled with zero rows that are
\* made by zeros_like from the first rows of the tensor built so far
get_audio_features(features, index) ==
    LET left0 == index - 4
        right0 == index + 4
        pad_left == IF left0 < 0 THEN -left0 ELSE 0
        left == IF left0 < 0 THEN 0 ELSE left0
        pad_right == IF right0 > Len(features) THEN right0 - Len(features) ELSE 0
        right == IF right0 > Len(features) THEN Len(features) ELSE right0
        auds0 == PySlice(features, left, right)
        auds1 == IF pad_left > 0
                 THEN zeros_like(PySlice(auds0, 0, pad_left)) \o auds0
                 ELSE auds0
    IN  IF pad_right > 0
        THEN auds1 \o zeros_like(PySlice(auds1, 0, pad_right))
        ELSE auds1

\* the pending call returns
AudioCall ==
    /\ calc.op = "audio"
    /\ calc.pc = "call"
    /\ calc' = [calc EXCEPT
                  !.out = get_audio_features(Features(calc.len), calc.index),
                  !.pc = "returned"]
    /\ UNCHANGED varsNotScript

\* ------------------------------------------------- crop and compositing
\* the landmark counts explored: one below and one at the threshold of
\* `if len(lms_list) < 10`
LmCounts == {9, 10}

\* (mutant of CropBox: xmax and ymax are not clipped to the image)
CropBoxUnclipped(l, w, h) ==
    LET width == l.xmax - l.xmin
        height == l.ymax - l.ymin
        size0 == max(width, height)
        center_x == (l.xmin + l.xmax) \div 2
        center_y == (l.ymin + l.ymax) \div 2
        size == (12 * size0) \div 10
        xmin == center_x - size \div 2
        ymin == center_y - size \div 2
        xmax == xmin + size
        ymax == ymin + size
    IN  [xmin |-> max(0, xmin), xmax |-> xmax,
         ymin |-> max(0, ymin), ymax |-> ymax]

\* the crop region of the landmarks with extremes l in an image of w x h
\* pixels: the bounding box made square, enlarged by int(size * 1.2)
\* (truncation of a non-negative product: (12 * size) div 10), centred on
\* the box, then clipped to the image
CropBox(l, w, h) ==
    LET width == l.xmax - l.xmin
        height == l.ymax - l.ymin
        size0 == max(width, height)
        center_x == (l.xmin + l.xmax) \div 2
        center_y == (l.ymin + l.ymax) \div 2
        size == (12 * size0) \div 10
        xmin == center_x - size \div 2
        ymin == center_y - size \div 2
        xmax == xmin + size
        ymax == ymin + size
    IN  [xmin |-> max(0, xmin), xmax |-> min(w, xmax),
         ymin |-> max(0, ymin), ymax |-> min(h, ymax)]

\* the indices selected by a slice a:b of an axis of n pixels
SliceIndices(a, b, n) == {k \in 0..(n - 1) : SliceBound(a, n) <= k /\ k < SliceBound(b, n)}

\* (mutant of SlicePixels: the axes are exchanged, img[xmin:xmax, ymin:ymax])
SlicePixelsSwapped(b, w, h) ==
    {<< x, y >> \in (0..(w - 1)) \X (0..(h - 1)) :
        /\ y \in SliceIndices(b.xmin, b.xmax, h)
        /\ x \in SliceIndices(b.ymin, b.ymax, w)}

\* the pixels << x, y >> of img[ymin:ymax, xmin:xmax] in an image of w x h
SlicePixels(b, w, h) ==
    {<< x, y >> \in (0..(w - 1)) \X (0..(h - 1)) :
        /\ y \in SliceIndices(b.ymin, b.ymax, h)
        /\ x \in SliceIndices(b.xmin, b.xmax, w)}

\* the body of the frame loop from the landmark count on: too few
\* landmarks, a crop region without width or height, or an empty crop end
\* the iteration with `continue`; otherwise the predicted face is resized
\* to the crop, assigned to img[ymin:ymax, xmin:xmax] and img is written
CropFrame ==
    /\ calc.op = "crop"
    /\ calc.pc = "frame"
    /\ IF calc.count < 10
       THEN calc' = [calc EXCEPT !.pc = "skipped"]
       ELSE LET b == CropBox(calc.lms, calc.img.w, calc.img.h)
            IN  IF b.xmax - b.xmin <= 0 \/ b.ymax - b.ymin <= 0
                   \/ SlicePixels(b, calc.img.w, calc.img.h) = {}
                THEN calc' = [calc EXCEPT !.box = b, !.pc = "skipped"]
                ELSE calc' = [calc EXCEPT
                                 !.box = b,
                                 !.changed = SlicePixels(b, calc.img.w, calc.img.h),
                                 !.pc = "written"]
    /\ UNCHANGED varsNotScript

\* ------------------------------------------------------ frame selectors
\* (mutant of InferenceStride: the direction is reversed one image early)
InferenceStrideEarly(len_img, img_idx, step_stride) ==
    LET s1 == IF img_idx > len_img - 2 THEN -1 ELSE step_stride
    IN  IF img_idx < 1 THEN 1 ELSE s1

\* the two tests at the head of the loop of inference.py, in their order
InferenceStride(len_img, img_idx, step_stride) ==
    LET s1 == IF img_idx > len_img - 1 THEN -1 ELSE step_stride
    IN  IF img_idx < 1 THEN 1 ELSE s1

\* one frame of inference.py: len_img = len(os.listdir(img_dir)) - 1, the
\* stride is set, img_idx is advanced, and the advanced img_idx names the
\* image of the frame
SelInference ==
    /\ calc.op = "select"
    /\ calc.impl = "inference"
    /\ Len(calc.out) < MaxSteps
    /\ LET stride == InferenceStride(calc.n - 1, calc.img_idx, calc.step_stride)
       IN  calc' = [calc EXCEPT !.step_stride = stride,
                                !.img_idx = calc.img_idx + stride,
                                !.out = Append(calc.out, calc.img_idx + stride)]
    /\ UNCHANGED varsNotScript

\* the two tests of _get_simple_sequence, in their order
SimpleStride(total_images, img_idx, step_stride) ==
    LET s1 == IF img_idx >= total_images - 1 THEN -1 ELSE step_stride
    IN  IF img_idx <= 0 THEN 1 ELSE s1

\* one frame of _get_simple_sequence: the stride is set, img_idx is
\* appended, then img_idx is advanced
SelSimple ==
    /\ calc.op = "select"
    /\ calc.impl = "simple"
    /\ Len(calc.out) < MaxSteps
    /\ LET stride == SimpleStride(calc.n, calc.img_idx, calc.step_stride)
       IN  calc' = [calc EXCEPT !.step_stride = stride,
                                !.out = Append(calc.out, calc.img_idx),
                                !.img_idx = calc.img_idx + stride]
    /\ UNCHANGED varsNotScript

\* the action categories, in the order of the dict action_types
ActionOrder == << "greeting", "pointing", "excited", "explaining", "urging" >>

ActionTypes == {ActionOrder[k] : k \in 1..Len(ActionOrder)}

\* ActionManager.action_types: the image ranges of each category
action_types ==
    [a \in ActionTypes |->
        CASE a = "greeting"   -> {<< 0, 150 >>, << 500, 650 >>}
          [] a = "pointing"   -> {<< 150, 300 >>, << 800, 950 >>}
          [] a = "excited"    -> {<< 300, 450 >>, << 950, 1100 >>}
          [] a = "explaining" -> {<< 450, 600 >>, << 1100, 1177 >>}
          [] OTHER            -> {<< 600, 750 >>, << 200, 350 >>}]

\* get_action_range(action_type): random.choice of the category's ranges
get_action_range(a) == action_types[a]

\* analyze_batch_actions: the chosen range with both ends cut to
\* total_images - 1
BatchRange(r, total_images) ==
    << min(r[1], total_images - 1), min(r[2], total_images - 1) >>

\* the position i of a triangle wave over start .. start + size - 1
CycleIndex(i, start, size) ==
    LET cycle_pos == i % (size * 2 - 2)
    IN  IF cycle_pos < size THEN start + cycle_pos
        ELSE start + (size * 2 - 2 - cycle_pos)

\* the image index of frame i in the generated script, for the range
\* action_start .. action_end written into it
ScriptIndex(i, action_start, action_end) ==
    LET action_range_size == action_end - action_start + 1
        img_idx == IF action_range_size > 1
                   THEN CycleIndex(i, action_start, action_range_size)
                   ELSE action_start
    IN  max(0, min(img_idx, script_max_index))

\* one frame of the generated script
SelScript ==
    /\ calc.op = "select"
    /\ calc.impl = "script"
    /\ Len(calc.out) < MaxFrameNo
    /\ LET img_idx == ScriptIndex(Len(calc.out), calc.range[1], calc.range[2])
       IN  calc' = [calc EXCEPT !.img_idx = img_idx,
                                !.out = Append(calc.out, img_idx)]
    /\ UNCHANGED varsNotScript

\* the image index of frame i in the batch script of one sentence:
\* frame_in_sentence is i inside the sentence's estimated frames and
\* i - estimated_frames after them; the result is cut to 0 .. len_img
BatchIndex(i, start_img, end_img, len_img) ==
    LET frame_in_sentence == IF i < estimated_frames THEN i
                             ELSE i - estimated_frames
        range_size == end_img - start_img + 1
        img_idx == IF range_size <= 1 THEN start_img
                   ELSE CycleIndex(frame_in_sentence, start_img, range_size)
    IN  max(0, min(img_idx, len_img))

\* one frame of the batch script; len_img = len(os.listdir(img_dir)) - 1
SelBatch ==
    /\ calc.op = "select"
    /\ calc.impl = "batch"
    /\ Len(calc.out) < MaxFrameNo
    /\ LET img_idx == BatchIndex(Len(calc.out), calc.range[1], calc.range[2],
                                 calc.n - 1)
       IN  calc' = [calc EXCEPT !.img_idx = img_idx,
                                !.out = Append(calc.out, img_idx)]
    /\ UNCHANGED varsNotScript

\* -------------------------------------------------- analyze_text_action
\* the score of category a: the number of its keywords found in the text
Score(t, a) == Cardinality({w \in t : w[1] = a})

\* the highest score
BestScore(t) == CHOOSE m \in 0..Cardinality(t) :
                    /\ \E a \in ActionTypes : Score(t, a) = m
                    /\ \A a \in ActionTypes : Score(t, a) <= m

\* max(action_scores, key=action_scores.get): the first key, in the order
\* of the dict, that has the highest score
MaxByScore(t) ==
    ActionOrder[CHOOSE k \in 1..Len(ActionOrder) :
                    /\ Score(t, ActionOrder[k]) = BestScore(t)
                    /\ \A j \in 1..(k - 1) :
                          Score(t, ActionOrder[j]) < BestScore(t)]

\* the possible results of analyze_text_action of dh_clients.py: the best
\* one, replaced by random.choice over all categories when its score is 0
analyze_text_action(t) ==
    LET best_action == MaxByScore(t)
    IN  IF Score(t, best_action) = 0 THEN ActionTypes ELSE {best_action}

\* the possible results of analyze_text_action of
\* enhanced_digital_human_generator.py: the best one when the highest
\* score is positive, else random.choice over all categories
analyze_text_action_enhanced(t) ==
    IF BestScore(t) > 0 THEN {MaxByScore(t)} ELSE ActionTypes

\* the pending call returns the category a
AnalyzeReturn(a) ==
    /\ calc.op = "analyze"
    /\ calc.pc = "call"
    /\ a \in (IF calc.impl = "clients" THEN analyze_text_action(calc.text)
              ELSE analyze_text_action_enhanced(calc.text))
    /\ calc' = [calc EXCEPT !.result = a, !.pc = "returned"]
    /\ UNCHANGED varsNotScript

Analyze == \E a \in ActionTypes : AnalyzeReturn(a)

\* ------------------------------------------------------------ specification
Scheduler == SchedLoop \/ SchedEmpty \/ SchedStart \/ SchedInsert

Monitor == MonLoop \/ MonNext \/ MonMove \/ MonExcept

Stop == StopCall \/ StopNext \/ StopJoin

Next ==
    \/ Start
    \/ Submit
    \/ SchedLoop
    \/ SchedEmpty
    \/ SchedStart
    \/ SchedInsert
    \/ MonLoop
    \/ MonNext
    \/ MonMove
    \/ MonExcept
    \/ ProcessExits
    \/ TimePasses
    \/ StopCall
    \/ StopNext
    \/ StopJoin

Spec == Init /\ [][Next]_vars

\* The manager while it is running (stop() is not called).  Every thread
\* that can take a step eventually takes one, start() is called, and for
\* every streaming child that keeps running the wall clock eventually
\* passes its timeout.
NextRunning ==
    \/ Start
    \/ Submit
    \/ SchedLoop
    \/ SchedEmpty
    \/ SchedStart
    \/ SchedInsert
    \/ MonLoop
    \/ MonNext
    \/ MonMove
    \/ MonExcept
    \/ ProcessExits
    \/ TimePasses

LiveSpec ==
    /\ Init
    /\ [][NextRunning]_vars
    /\ WF_vars(Start)
    /\ WF_vars(Scheduler)
    /\ WF_vars(Monitor)
    /\ \A t \in 1..MaxTasks : WF_vars(Expire(t))

\* The scenario of 5 submissions with max_concurrent_streams = 2: every video
\* file exists, every spawn succeeds, every child exits with code 0 before
\* its timeout, stop() is not called.
ScenarioInit == InitStreamer(2) /\ InitGenerator /\ InitProducer(1) /\ InitSystem(1)
                /\ InitFrames(0)
                /\ InitScript

ScenarioSubmit == Len(status) < 5 /\ add_stream_task

ScenarioStart == start_stream_task(TRUE, TRUE)

ScenarioExit == \E t \in Tasks : ProcExit(t, TRUE)

NextScenario ==
    \/ Start
    \/ ScenarioSubmit
    \/ SchedLoop
    \/ SchedEmpty
    \/ ScenarioStart
    \/ SchedInsert
    \/ MonLoop
    \/ MonNext
    \/ MonMove
    \/ MonExcept
    \/ ScenarioExit

ScenarioSpec ==
    /\ ScenarioInit
    /\ [][NextScenario]_vars
    /\ WF_vars(Start)
    /\ WF_vars(ScenarioSubmit)
    /\ WF_vars(SchedLoop \/ SchedEmpty \/ ScenarioStart \/ SchedInsert)
    /\ WF_vars(Monitor)
    /\ \A t \in 1..5 : WF_vars(ProcExit(t, TRUE))

\* Worker threads calling generate_unique_id on the shared generator
NextId ==
    \/ \E w \in 1..Workers : GenCall(w)
    \/ \E w \in 1..Workers : GenAcquire(w)
    \/ \E w \in 1..Workers : GenLoad(w)
    \/ \E w \in 1..Workers : GenStore(w)
    \/ \E w \in 1..Workers : GenCopy(w)
    \/ \E w \in 1..Workers : GenReturn(w)

SpecId == Init /\ [][NextId]_vars

\* The producer of the paragraph generator while no worker takes a unit
\* from text_queue
NextProducer ==
    \/ ParaStart
    \/ ParaBootstrap
    \/ ParaLoop
    \/ ParaPut
    \/ ParaStop

InitProducerSpec ==
    /\ InitStreamer(1)
    /\ InitGenerator
    /\ \E q \in 1..MaxQ : InitProducer(q)
    /\ InitSystem(1)
    /\ InitFrames(0)
    /\ InitScript

ProducerSpec == InitProducerSpec /\ [][NextProducer]_vars

\* DigitalHumanParagraphSystem of dh_system: the text thread, the video
\* workers, the status thread and stop().  The streamer is started and
\* stopped and receives the submitted tasks; its own threads take no step
\* here (they read and write nothing of the pipeline's state).
InitPipe ==
    /\ InitStreamer(1)
    /\ InitGenerator
    /\ InitProducer(1)
    /\ \E q \in 1..MaxQ : InitSystem(q)
    /\ InitFrames(0)
    /\ InitScript

TextThread == TextLoop \/ TextPut

Worker(w) == WorkerLoop(w) \/ WorkerGet(w) \/ WorkerAudio(w) \/ WorkerVideo(w)
             \/ WorkerSubmit(w)

NextPipe ==
    \/ SysStart
    \/ TextLoop
    \/ TextPut
    \/ \E w \in 1..parallel_workers : WorkerLoop(w)
    \/ \E w \in 1..parallel_workers : WorkerGet(w)
    \/ \E w \in 1..parallel_workers : WorkerAudio(w)
    \/ \E w \in 1..parallel_workers : WorkerVideo(w)
    \/ \E w \in 1..parallel_workers : WorkerSubmit(w)
    \/ SysMonLoop
    \/ SysStopCall
    \/ SysStopStreamer
    \/ SysJoin

PipeSpec == InitPipe /\ [][NextPipe]_vars

\* The same system with text_queue_size = 1 and the streamer's manager
\* thread running, every thread taking its steps and stop() called at some
\* time
InitSystemLive ==
    /\ InitStreamer(1)
    /\ InitGenerator
    /\ InitProducer(1)
    /\ InitSystem(1)
    /\ InitFrames(0)
    /\ InitScript

NextSystem ==
    \/ NextPipe
    \/ SchedLoop
    \/ SchedEmpty
    \/ SchedStart
    \/ SchedInsert
    \/ SysStopRaised

SystemLiveSpec ==
    /\ InitSystemLive
    /\ [][NextSystem]_vars
    /\ WF_vars(SysStart)
    /\ WF_vars(SysStopCall)
    /\ WF_vars(TextThread)
    /\ \A w \in 1..parallel_workers : WF_vars(Worker(w))
    /\ WF_vars(SysMonLoop)
    /\ WF_vars(Scheduler)
    /\ WF_vars(SysStopStreamer)
    /\ WF_vars(SysStopRaised)
    /\ WF_vars(SysJoin)

\* One synthesis run over 0..MaxFrames feature frames
InitFrameSpec ==
    /\ InitStreamer(1)
    /\ InitGenerator
    /\ InitProducer(1)
    /\ InitSystem(1)
    /\ \E n \in 0..MaxFrames : InitFrames(n)
    /\ InitScript

NextFrame ==
    \/ FrameStep
    \/ FrameRelease

FrameSpec == InitFrameSpec /\ [][NextFrame]_vars

\* One call of get_audio_features for every sequence length 0..MaxFeat and
\* every index from IdxSlack below the first row to IdxSlack past the last
InitAudioSpec ==
    /\ InitStreamer(1)
    /\ InitGenerator
    /\ InitProducer(1)
    /\ InitSystem(1)
    /\ InitFrames(0)
    /\ \E n \in 0..MaxFeat : \E i \in (0 - IdxSlack)..(MaxFeat + IdxSlack) :
          InitAudio(n, i)

NextAudio == AudioCall

AudioSpec == InitAudioSpec /\ [][NextAudio]_vars

\* the landmark coordinates explored
Coords == (0 - CoordSlack)..(MaxImg + CoordSlack)

\* One frame body for every image of up to MaxImg x MaxImg pixels and every
\* choice of the extreme landmark coordinates
InitCropSpec ==
    /\ InitStreamer(1)
    /\ InitGenerator
    /\ InitProducer(1)
    /\ InitSystem(1)
    /\ InitFrames(0)
    /\ \E w, h \in 1..MaxImg : \E n \in LmCounts :
       \E x0, x1, y0, y1 \in Coords :
          /\ x0 <= x1 /\ y0 <= y1
          /\ InitCrop(w, h, n, [xmin |-> x0, xmax |-> x1, ymin |-> y0, ymax |-> y1])

NextCrop == CropFrame

CropSpec == InitCropSpec /\ [][NextCrop]_vars

\* One run of each ping-pong selector over a pool of 1..MaxPool images
InitPingPongSpec ==
    /\ InitStreamer(1)
    /\ InitGenerator
    /\ InitProducer(1)
    /\ InitSystem(1)
    /\ InitFrames(0)
    /\ \E impl \in {"inference", "simple"} : \E n \in 1..MaxPool :
          InitSelector(impl, n, << 0, 0 >>)

NextPingPong ==
    \/ SelInference
    \/ SelSimple

PingPongSpec == InitPingPongSpec /\ [][NextPingPong]_vars

\* the pool sizes explored by the action-driven selectors
PoolSizes == (default_total_images - MaxMissing)..default_total_images

\* One run of each action-driven selector for every category, every range
\* of it and every pool size
InitActionSelSpec ==
    /\ InitStreamer(1)
    /\ InitGenerator
    /\ InitProducer(1)
    /\ InitSystem(1)
    /\ InitFrames(0)
    /\ \E n \in PoolSizes : \E a \in ActionTypes : \E r \in get_action_range(a) :
          \/ InitSelector("script", n, r)
          \/ InitSelector("batch", n, BatchRange(r, n))

NextActionSel ==
    \/ SelScript
    \/ SelBatch

ActionSelSpec == InitActionSelSpec /\ [][NextActionSel]_vars

\* the first MaxKw keywords of every category
Keywords == ActionTypes \X (1..MaxKw)

\* One call of analyze_text_action for every set of keywords a text can
\* contain
InitAnalyzeSpec ==
    /\ InitStreamer(1)
    /\ InitGenerator
    /\ InitProducer(1)
    /\ InitSystem(1)
    /\ InitFrames(0)
    /\ \E impl \in {"clients", "enhanced"} : \E t \in SUBSET Keywords :
          InitAnalyze(impl, t)

NextAnalyze == Analyze

AnalyzeSpec == InitAnalyzeSpec /\ [][NextAnalyze]_vars

\* ==================================================================== claims
Streaming == {t \in Tasks : status[t] = "STREAMING"}

Pending == {t \in Tasks : status[t] = "PENDING"}

AllowedTransition(from, to) ==
    \/ from = "PENDING" /\ to \in {"STREAMING"} \cup Terminal
    \/ from = "STREAMING" /\ to \in Terminal

\* C2: every change of a task's status follows PENDING -> STREAMING ->
\* {COMPLETED, FAILED, TIMEOUT}: no task returns to PENDING or STREAMING and
\* a terminal status never changes again.
C2_Monotonic ==
    [][\A t \in Tasks : status'[t] # status[t] =>
            AllowedTransition(status[t], status'[t])]_vars

\* C3 (ScenarioSpec: max_concurrent_streams = 2, 5 submissions, every child
\* exits with code 0).  Once all 5 tasks are submitted, the manager is at
\* capacity and no child has exited yet, exactly 2 tasks are STREAMING and 3
\* are PENDING.
C3_Settled ==
    ( /\ Len(status) = 5
      /\ Cardinality(active_tasks) = max_concurrent_streams
      /\ \A t \in Tasks : process[t] \in {"none", "running"} )
    => /\ Cardinality(Streaming) = 2
       /\ Cardinality(Pending) = 3
       /\ Pending = {stream_queue[i] : i \in 1..Len(stream_queue)}

\* C3: a task that leaves PENDING is the head of the queue (the next pending
\* task) and takes a slot that is free
C3_NextPendingStarts ==
    [][\A t \in Tasks : (status[t] = "PENDING" /\ status'[t] # "PENDING") =>
            /\ status'[t] = "STREAMING"
            /\ t = Head(stream_queue)
            /\ Cardinality(active_tasks) < 2]_vars

C3_AllCompleted ==
    /\ Len(status) = 5
    /\ \A t \in Tasks : status[t] = "COMPLETED"
    /\ completed_tasks = 1..5 /\ active_tasks = {}

C3_SettledReached ==
    /\ Len(status) = 5
    /\ Cardinality(active_tasks) = 2
    /\ \A t \in Tasks : process[t] \in {"none", "running"}
    /\ Cardinality(Streaming) = 2 /\ Cardinality(Pending) = 3

\* the monitor is between two passes over active_tasks (or has exited)
MonitorPassOver == mon_pc \notin {"iter", "move"}

\* C4: a task the monitor found timed out (it signalled the task's process
\* group) is, when that pass of the monitor is over, dead, marked TIMEOUT and
\* moved from the active set to the completed set.
C4_TimeoutReleased ==
    \A t \in Tasks : (pgkill[t] # "none" /\ MonitorPassOver) =>
        /\ process[t] = "killed"
        /\ status[t] = "TIMEOUT"
        /\ t \notin active_tasks
        /\ t \in completed_tasks

C6_StopKillsAll ==
    (stop_pc = "returned" /\ sched_pc = "done" /\ mon_pc = "done")
    => \A t \in Tasks : process[t] # "running"

\* C7: once stop() has been called add_stream_task creates and enqueues no
\* task and returns no task id
C7_NoSubmitAfterStop ==
    [][stop_pc # "idle" => (Len(status') = Len(status) /\ last_ret' = last_ret)]_vars

\* C8: a task whose child exited by itself and that the monitor marked is,
\* when that pass of the monitor is over, COMPLETED for exit code 0 and FAILED
\* otherwise, carries at most 200 characters of error output, and has been
\* moved from the active set to the completed set.
C8_ExitedMoved ==
    \A t \in Tasks :
        ( /\ process[t] \in {"exit0", "exitN"}
          /\ status[t] \in Terminal
          /\ MonitorPassOver )
        => /\ status[t] = ExitStatus(Poll(process[t]))
           /\ error_message[t].len <= ErrLimit
           /\ t \notin active_tasks
           /\ t \in completed_tasks

\* C9: add_stream_task can always be taken as one step, whatever the child
\* processes and the two threads are doing, and the step appends one PENDING
\* task to the queue, returns its id, and changes nothing else: the active
\* and completed sets, the fields of every other task and both threads are
\* as before.
C9_SubmitOnlyEnqueues ==
    /\ [](Len(status) < MaxTasks => ENABLED Submit)
    /\ [][Len(status') # Len(status) =>
            /\ status' = Append(status, "PENDING")
            /\ stream_queue' = Append(stream_queue, Len(status) + 1)
            /\ last_ret' = Len(status) + 1
            /\ \A t \in Tasks : /\ process'[t] = process[t]
                                 /\ error_message'[t] = error_message[t]
                                 /\ pgkill'[t] = pgkill[t]
            /\ UNCHANGED << active_tasks, completed_tasks, is_running,
                            sched_pc, sched_task, mon_pc, mon_done, stop_pc >>]_vars

\* C9 witness: a task was submitted, and is pending in the queue, while the
\* manager is at capacity with a child running and a task completed
C9_SubmittedWhileBusy ==
    /\ last_ret = Len(status) /\ last_ret >= 2
    /\ status[last_ret] = "PENDING"
    /\ stream_queue # << >> /\ stream_queue[Len(stream_queue)] = last_ret
    /\ Cardinality(active_tasks) = max_concurrent_streams
    /\ \E t \in active_tasks : process[t] = "running"

\* C10 (SpecId): no two calls of generate_unique_id return the same id
C10_UniqueIds ==
    \A i, j \in 1..Len(unique_ids) : i # j => unique_ids[i] # unique_ids[j]

\* C10: the counter is loaded and stored only by the worker holding the lock
C10_Atomic ==
    /\ C10_UniqueIds
    /\ \A w \in 1..Workers : gen_pc[w] \in {"load", "store", "copy"} => counter_lock = w
    /\ Cardinality({w \in 1..Workers : gen_pc[w] \in {"load", "store", "copy"}}) <= 1

\* C10 witness: two ids were returned for the same text in the same second,
\* and one worker is updating the counter under the lock while another
\* worker waits for the lock
C10_ConcurrentCalls ==
    /\ Len(unique_ids) >= 2
    /\ unique_ids[1][16] = unique_ids[2][16]
    /\ \E w, v \in 1..Workers : gen_pc[w] = "store" /\ gen_pc[v] = "acquire"

\* the units held by text_queue
QueuedUnits == {pg_queue[i] : i \in 1..Len(pg_queue)}

\* C11: with a text queue of capacity pg_size and no worker consuming, the
\* queue never holds more than pg_size units; the producer waiting in put()
\* can always take its next step (the put times out); an enqueue attempted
\* on a full queue drops that unit with one warning, keeps the queued units
\* and takes the producer to its next iteration; and nothing is dropped
\* while the queue has room.
C11_ProducerNeverBlocks ==
    /\ [](Len(pg_queue) <= pg_size)
    /\ [](pg_pc = "put" => ENABLED ParaPut)
    /\ [][(pg_pc = "put" /\ pg_pc' # "put") =>
            IF Len(pg_queue) = pg_size
            THEN /\ pg_dropped' = pg_dropped \cup {pg_text}
                 /\ pg_warnings' = pg_warnings + 1
                 /\ pg_queue' = pg_queue
                 /\ pg_pc' = "loop"
            ELSE /\ pg_queue' = Append(pg_queue, pg_text)
                 /\ pg_dropped' = pg_dropped
                 /\ pg_pc' = "loop"]_vars
    /\ [](pg_dropped \cap QueuedUnits = {})

\* C11 witness: capacity 2, three enqueues attempted, the third one dropped
\* and logged, the first two still queued, the producer back at its loop
C11_ThirdDropped ==
    /\ pg_size = 2
    /\ pg_queue = << 1, 2 >>
    /\ pg_dropped = {3}
    /\ pg_warnings = 1
    /\ pg_pc = "loop" /\ pg_running

\* C12: the number of PENDING stream tasks waiting in AsyncUDPStreamer's
\* queue never exceeds the configured max_queue_size (a submission that
\* would overflow the queue is dropped instead of stored).
C12_QueueBounded ==
    /\ Len(stream_queue) <= max_queue_size
    /\ Cardinality(Pending) <= max_queue_size

\* every loop thread of DigitalHumanParagraphSystem has left its loop
AllThreadsEnded ==
    /\ text_pc = "done"
    /\ \A w \in 1..parallel_workers : wk_pc[w] = "done"
    /\ smon_pc = "done"

\* C13: once stop() has set running to False, the text thread, every video
\* worker and the status thread eventually leave their loops, and stop()
\* returns after its joins.
C13_StopReturns ==
    (sys_stop_pc # "idle") ~> (AllThreadsEnded /\ sys_stop_pc = "returned")

\* C13, the part about the loops alone: after stop() has set the flag every
\* loop thread eventually ends
C13_ThreadsEnd == (sys_stop_pc # "idle") ~> AllThreadsEnded

SubmittedBases == {submitted[i] : i \in 1..Len(submitted)}

\* C15: a worker submits a stream task for a unit only if audio and video
\* generation both succeeded for it (its final video is on disk), and at
\* most once; when a step fails the unit is discarded in that step, nothing
\* is submitted for it, and the worker is back at the top of its loop, which
\* it leaves only when running is False.
C15_SubmitOnlySucceeded ==
    /\ [](\A b \in SubmittedBases : outcome[b] = "ok" /\ << b, "final" >> \in files)
    /\ [](Cardinality(SubmittedBases) = Len(submitted) /\ Len(status) = Len(submitted))
    /\ [][\A w \in 1..parallel_workers :
            (wk_base[w] # 0 /\ outcome[wk_base[w]] = "none"
               /\ outcome'[wk_base[w]] \in {"audio_failed", "video_failed"})
            => /\ wk_pc'[w] = "loop" /\ wk_base'[w] = 0
               /\ submitted' = submitted /\ status' = status]_vars
    /\ [](\A w \in 1..parallel_workers : wk_pc[w] = "done" => ~running)

\* C15 witness: the first unit failed in generate_video and was discarded,
\* the second one succeeded and is the only one submitted
C15_FailedThenSubmitted ==
    /\ outcome[1] = "video_failed"
    /\ outcome[2] = "ok"
    /\ submitted = << 2 >>
    /\ running

Intermediate == {"audio", "hubert", "raw", "script"}

\* C16: when generate_video has failed for a unit, none of the unit's
\* partially produced files (audio, features, raw video, inference script)
\* is left on disk.
C16_FailureCleansUp ==
    \A b \in 1..MaxTexts : outcome[b] = "video_failed" =>
        \A k \in Intermediate : << b, k >> \notin files

QueuedTexts == {text_queue[i] : i \in 1..Len(text_queue)}

\* C18: every paragraph put on text_queue is either still waiting there,
\* never taken, or was returned by exactly one get to exactly one worker;
\* two workers never hold the same paragraph.
C18_ConsumedOnce ==
    /\ \A u \in 1..MaxTexts :
          /\ takes[u] <= 1
          /\ Cardinality(owners[u]) = takes[u]
          /\ u \in QueuedTexts => takes[u] = 0
          /\ (u <= text_made /\ u \notin QueuedTexts) => takes[u] = 1
          /\ u > text_made => (takes[u] = 0 /\ u \notin QueuedTexts)
    /\ Cardinality(QueuedTexts) = Len(text_queue)
    /\ \A w, v \in 1..parallel_workers :
          (w # v /\ wk_text[w] # 0) => wk_text[w] # wk_text[v]
    /\ \A w \in 1..parallel_workers : wk_text[w] # 0 => owners[wk_text[w]] = {w}

\* C18 witness: two workers process two different paragraphs at the same time
C18_TwoWorkersBusy ==
    /\ wk_text[1] # 0 /\ wk_text[2] # 0
    /\ takes[1] = 1 /\ takes[2] = 1
    /\ owners[1] # owners[2]

\* C19: stream tasks wait in the queue in submission order, and the
\* scheduler takes them in that order: in every reachable state, a task
\* that has left PENDING (was taken by the scheduler) has no task submitted
\* before it that is still PENDING.
C19_StartedInOrder ==
    /\ \A i, j \in 1..Len(stream_queue) : i < j => stream_queue[i] < stream_queue[j]
    /\ \A t, u \in Tasks : (u < t /\ status[t] # "PENDING") => status[u] # "PENDING"

\* C19 witness: two tasks were queued together and the scheduler has taken
\* the first one while the second still waits
C19_FirstTakenFirst ==
    /\ Len(status) = 2
    /\ status[1] = "STREAMING" /\ sched_pc = "spawned" /\ sched_task = 1
    /\ status[2] = "PENDING" /\ stream_queue = << 2 >>

\* the frame indices written so far
WrittenFrames == {fr_written[k] : k \in 1..Len(fr_written)}

\* C20: within one synthesis run the feature-frame indices written to the
\* video are strictly increasing, and they are the indices processed so far
\* minus the skipped ones (all of 0..len-1 minus the skipped ones when the
\* writer is released).
C20_FramesInOrder ==
    /\ \A k \in 1..(Len(fr_written) - 1) : fr_written[k] < fr_written[k + 1]
    /\ WrittenFrames \cap fr_skipped = {}
    /\ WrittenFrames \cup fr_skipped = 0..(fr_i - 1)
    /\ fr_pc = "released" => fr_i = fr_n

\* C20 witness: a run of 4 frames whose second frame was skipped
C20_RunWithSkip ==
    /\ fr_pc = "released"
    /\ fr_n = 4
    /\ fr_skipped = {1}
    /\ fr_written = << 0, 2, 3 >>

\* C21: get_audio_features returns exactly 8 rows for every integer index
\* and every length of the feature sequence.
C21_AlwaysEightRows ==
    (calc.op = "audio" /\ calc.pc = "returned") => Len(calc.out) = 8

\* C22: for a sequence of at least 8 rows and 0 <= index < len, the result
\* is max(0, 4 - index) zero rows, then features[max(0, index-4) :
\* min(len, index+4)] in their order, then max(0, index + 4 - len) zero rows.
C22_WindowContents ==
    (/\ calc.op = "audio" /\ calc.pc = "returned"
     /\ calc.len >= 8 /\ 0 <= calc.index /\ calc.index < calc.len)
        => calc.out = [k \in 1..max(0, 4 - calc.index) |-> 0]
                      \o SubSeq(Features(calc.len), max(0, calc.index - 4) + 1,
                                min(calc.len, calc.index + 4))
                      \o [k \in 1..max(0, calc.index + 4 - calc.len) |-> 0]

\* C22 witness: the call for the last row of a sequence of 9 rows has
\* returned rows 5..9 followed by 3 zero rows
C22_LastRowWindow ==
    /\ calc.op = "audio" /\ calc.pc = "returned"
    /\ calc.len = 9 /\ calc.index = 8
    /\ calc.out = << 5, 6, 7, 8, 9, 0, 0, 0 >>

\* C23: a frame that is composed and written has a crop region with
\* width > 0, height > 0, xmin >= 0, ymin >= 0, xmax <= image width and
\* ymax <= image height; every other frame is rejected (skipped) and
\* changes no pixel.
C23_CropInsideImage ==
    calc.op = "crop" =>
        /\ calc.pc \in {"frame", "written", "skipped"}
        /\ calc.pc = "written" =>
              /\ calc.count >= 10
              /\ calc.box.xmax - calc.box.xmin > 0
              /\ calc.box.ymax - calc.box.ymin > 0
              /\ calc.box.xmin >= 0 /\ calc.box.ymin >= 0
              /\ calc.box.xmax <= calc.img.w /\ calc.box.ymax <= calc.img.h
        /\ calc.pc # "written" => calc.changed = {}

\* C23 witness: landmarks reaching beyond the right and lower edge of a
\* 3 x 3 image give a region clipped to the image, and the frame is written
C23_ClippedCropUsed ==
    /\ calc.op = "crop" /\ calc.pc = "written"
    /\ calc.img = [w |-> 3, h |-> 3]
    /\ calc.lms.xmax > 3 /\ calc.lms.ymax > 3
    /\ calc.box.xmax = 3 /\ calc.box.ymax = 3

\* C24: the pixels changed by compositing a frame all lie inside the crop
\* region [ymin, ymax) x [xmin, xmax); every pixel outside it keeps the
\* value of the reference image.
C24_OnlyCropChanged ==
    calc.op = "crop" =>
        \A p \in calc.changed :
            /\ calc.box.xmin <= p[1] /\ p[1] < calc.box.xmax
            /\ calc.box.ymin <= p[2] /\ p[2] < calc.box.ymax

\* C24 witness: a frame was composed into a region that is not the whole
\* image and is wider than high
C24_PartComposed ==
    /\ calc.op = "crop" /\ calc.pc = "written"
    /\ calc.changed # {}
    /\ calc.changed # (0..(calc.img.w - 1)) \X (0..(calc.img.h - 1))
    /\ calc.box.xmax - calc.box.xmin > calc.box.ymax - calc.box.ymin

\* C25: a landmark-file read error, fewer than 10 landmarks, a degenerate
\* crop or an unreadable reference image makes the loop skip that frame
\* only and go on with the next one; the run does not abort: every
\* iteration that meets one of them leaves the run in the loop, with the
\* frame skipped and the next frame at hand.
C25_FaultSkipsFrame ==
    [][\A c \in {"lms_read_error", "few_landmarks", "degenerate_crop",
                 "image_unreadable"} :
          FrameBody(FrameOutcome(c)) =>
              /\ fr_pc' = "loop"
              /\ fr_i' = fr_i + 1
              /\ fr_i \in fr_skipped']_vars

\* C26: for every pool size N >= 1 and every number of steps, a sequential
\* ping-pong selector produces only indices in 0..N-1.
C26_PingPongInPool ==
    (calc.op = "select" /\ calc.impl \in {"inference", "simple"}) =>
        \A k \in 1..Len(calc.out) : calc.out[k] \in 0..(calc.n - 1)

\* C27: every index produced by an action-driven selector lies within the
\* chosen action range [start, end] and within [0, N-1], N being the number
\* of images in the reference pool.
C27_ActionIndexInPool ==
    (calc.op = "select" /\ calc.impl \in {"script", "batch"}) =>
        \A k \in 1..Len(calc.out) :
            /\ calc.range[1] <= calc.out[k] /\ calc.out[k] <= calc.range[2]
            /\ calc.out[k] \in 0..(calc.n - 1)

C29_EveryTiedPossible ==
    calc.op = "analyze" =>
        /\ calc.pc = "returned" =>
              Score(calc.text, calc.result) = BestScore(calc.text)
        /\ calc.pc = "call" =>
              \A a \in ActionTypes :
                  Score(calc.text, a) = BestScore(calc.text)
                      => ENABLED AnalyzeReturn(a)

\* what both implementations do instead: the result has the highest score;
\* when no keyword matches, every category is a possible result; when the
\* highest score is positive the result is the first category, in the
\* order of the category table, that has it - also when several tie.
C29_FirstOfTied ==
    calc.op = "analyze" =>
        /\ calc.pc = "returned" =>
              Score(calc.text, calc.result) = BestScore(calc.text)
        /\ (calc.pc = "returned" /\ BestScore(calc.text) > 0) =>
              \A a \in ActionTypes :
                  (Score(calc.text, a) = BestScore(calc.text) /\ a # calc.result) =>
                      \E j, k \in 1..Len(ActionOrder) :
                          /\ j < k
                          /\ ActionOrder[j] = calc.result
                          /\ ActionOrder[k] = a
        /\ (calc.pc = "call" /\ BestScore(calc.text) = 0) =>
              \A a \in ActionTypes : ENABLED AnalyzeReturn(a)

\* C30: at every moment every task in the active set has status STREAMING
\* and a spawned process (the start time is recorded in the step that sets
\* STREAMING), every task in the completed set has a terminal status, and
\* no task is in both sets.
C30_SetsMatchStatus ==
    /\ \A t \in active_tasks : status[t] = "STREAMING" /\ process[t] # "none"
    /\ \A t \in completed_tasks : status[t] \in Terminal
    /\ active_tasks \cap completed_tasks = {}

\* ------------------------------------------------------- get_task_status
\* the lookup by id: active_tasks first, then completed_tasks, else None
\* (0 stands for None; the queue is not consulted).
get_task_status(t) ==
    IF t \in active_tasks THEN t
    ELSE IF t \in completed_tasks THEN t
    ELSE 0

\* C32: every task whose id add_stream_task has returned is found by
\* get_task_status at any later time (a task still waiting in the queue is
\* returned with status PENDING); the lookup never answers "not found".
C32_ReturnedIdFound ==
    \A t \in Tasks : get_task_status(t) = t

\* C33: once stop() of the paragraph system has set running to False and
\* async_streamer.stop() has returned, no worker takes a further paragraph
\* from the text queue to process it, and no worker submits a new stream
\* task to the stopped streamer.
C33_NoWorkAfterStop ==
    [][(~running /\ sys_stop_pc # "idle" /\ stop_pc = "returned") =>
          /\ \A w \in 1..parallel_workers :
                 ~(wk_pc[w] = "get" /\ wk_pc'[w] = "audio")
          /\ submitted' = submitted
          /\ Len(status') = Len(status)]_vars

\* C34: when a worker is about to submit its (video, audio) pair, and for
\* every pair already submitted, the final video and the audio file of the
\* unit are on disk: no clean-up step has removed either of them.
C34_PairOnDisk ==
    /\ \A w \in 1..parallel_workers :
           wk_pc[w] = "submit" =>
               /\ << wk_base[w], "final" >> \in files
               /\ << wk_base[w], "audio" >> \in files
    /\ \A b \in SubmittedBases :
           /\ << b, "final" >> \in files
           /\ << b, "audio" >> \in files

\* ------------------- OptimizedDigitalHumanLiveSystem._video_generation_worker
\* (src/digital_human_optimized.py).  calc.op = "counter": parallel_workers
\* threads run the worker loop over a text queue holding `texts` sentences;
\* audio_counter is the shared attribute, pc / reg the position of each
\* worker and the value its `self.audio_counter += 1` has loaded, assigned
\* the counter values formatted into audio file names, in order.
InitOptimized(n) ==
    calc = [op |-> "counter", texts |-> n, audio_counter |-> 0,
            pc |-> [w \in 1..parallel_workers |-> "get"],
            reg |-> [w \in 1..parallel_workers |-> 0],
            assigned |-> << >>]

\* text = self.text_queue.get(timeout=1.0) returning a sentence (an empty
\* queue raises queue.Empty and the loop continues)
OptGet(w) ==
    /\ calc.op = "counter"
    /\ calc.pc[w] = "get"
    /\ calc.texts > 0
    /\ calc' = [calc EXCEPT !.texts = @ - 1, !.pc[w] = "name"]
    /\ UNCHANGED varsNotScript

\* audio_filename = f"audio_{self.audio_counter:06d}.wav"
OptName(w) ==
    /\ calc.op = "counter"
    /\ calc.pc[w] = "name"
    /\ calc' = [calc EXCEPT !.assigned = Append(@, calc.audio_counter),
                            !.pc[w] = "load"]
    /\ UNCHANGED varsNotScript

\* self.audio_counter += 1, the load of the attribute
OptLoad(w) ==
    /\ calc.op = "counter"
    /\ calc.pc[w] = "load"
    /\ calc' = [calc EXCEPT !.reg[w] = calc.audio_counter, !.pc[w] = "store"]
    /\ UNCHANGED varsNotScript

\* self.audio_counter += 1, the store of the sum; the rest of the iteration
\* (TTS, video generation, video_queue.put) does not touch the counter
OptStore(w) ==
    /\ calc.op = "counter"
    /\ calc.pc[w] = "store"
    /\ calc' = [calc EXCEPT !.audio_counter = calc.reg[w] + 1, !.pc[w] = "get"]
    /\ UNCHANGED varsNotScript

\* parallel_workers workers and a queue of 1..MaxUnits sentences
InitOptimizedSpec ==
    /\ InitStreamer(1)
    /\ InitGenerator
    /\ InitProducer(1)
    /\ InitSystem(1)
    /\ InitFrames(0)
    /\ \E n \in 1..MaxUnits : InitOptimized(n)

NextOptimized ==
    \/ \E w \in 1..parallel_workers : OptGet(w)
    \/ \E w \in 1..parallel_workers : OptName(w)
    \/ \E w \in 1..parallel_workers : OptLoad(w)
    \/ \E w \in 1..parallel_workers : OptStore(w)

OptimizedSpec == InitOptimizedSpec /\ [][NextOptimized]_vars

\* C35: with parallel_workers workers running _video_generation_worker
\* concurrently, no two script units are assigned the same audio_counter
\* value (so no two units share an audio or video file name).
C35_DistinctAudioCounters ==
    calc.op = "counter" =>
        \A i, j \in 1..Len(calc.assigned) :
            i # j => calc.assigned[i] # calc.assigned[j]

\* ---------------------------------- StreamBuffer (src/live_stream_windows.py)
\* calc.op = "buffer": one of the two queues of a StreamBuffer, of maxsize
\* max_size, used by Workers producer threads calling add_text / add_video
\* (the two methods differ only in removing the evicted video's file) and by
\* a consumer loop calling get_text / get_video while the system runs.
\* Items are numbered in the order of the add calls.
\*   q:        the queue's content, oldest first
\*   pc, item: per producer, its position inside add_* and its argument
\*   consumer: "running" while the consumer loop runs, then "ended"
\*   calls:    add calls made so far
\*   evicted:  items removed by the get_nowait of an add call
\*   dropped:  items whose add call returned without storing them
InitBuffer(m) ==
    calc = [op |-> "buffer", max_size |-> m, q |-> << >>,
            pc |-> [p \in 1..Workers |-> "idle"],
            item |-> [p \in 1..Workers |-> 0],
            consumer |-> "running", calls |-> 0,
            evicted |-> {}, dropped |-> {}]

\* a thread calls add_text(text) / add_video(video_path)
BufCall(p) ==
    /\ calc.op = "buffer"
    /\ calc.pc[p] = "idle"
    /\ calc.calls < MaxCalls
    /\ calc' = [calc EXCEPT !.calls = @ + 1, !.item[p] = calc.calls + 1,
                            !.pc[p] = "put"]
    /\ UNCHANGED varsNotScript

\* try: self.text_queue.put(text, timeout=1): the item is stored when there
\* is room (then the method returns); queue.Full after a second without room
BufPut(p) ==
    /\ calc.op = "buffer"
    /\ calc.pc[p] = "put"
    /\ calc' = IF Len(calc.q) < calc.max_size
               THEN [calc EXCEPT !.q = Append(@, calc.item[p]), !.pc[p] = "idle"]
               ELSE [calc EXCEPT !.pc[p] = "evict"]
    /\ UNCHANGED varsNotScript

\* except queue.Full: try: self.text_queue.get_nowait() ...
\* except queue.Empty: pass
BufEvict(p) ==
    /\ calc.op = "buffer"
    /\ calc.pc[p] = "evict"
    /\ calc' = IF calc.q = << >>
               THEN [calc EXCEPT !.dropped = @ \cup {calc.item[p]},
                                 !.pc[p] = "idle"]
               ELSE [calc EXCEPT !.evicted = @ \cup {Head(calc.q)},
                                 !.q = Tail(@), !.pc[p] = "reput"]
    /\ UNCHANGED varsNotScript

\* self.text_queue.put(text): no timeout, the call waits for room
BufRePut(p) ==
    /\ calc.op = "buffer"
    /\ calc.pc[p] = "reput"
    /\ Len(calc.q) < calc.max_size
    /\ calc' = [calc EXCEPT !.q = Append(@, calc.item[p]), !.pc[p] = "idle"]
    /\ UNCHANGED varsNotScript

\* get_text / get_video of the consumer loop returning an item (on an empty
\* queue they return None after the timeout and the loop goes on)
BufGet ==
    /\ calc.op = "buffer"
    /\ calc.consumer = "running"
    /\ calc.q # << >>
    /\ calc' = [calc EXCEPT !.q = Tail(@)]
    /\ UNCHANGED varsNotScript

\* the consumer loop ends: `while self.is_running` is False, or the break
\* after a failed push
BufConsumerEnds ==
    /\ calc.op = "buffer"
    /\ calc.consumer = "running"
    /\ calc' = [calc EXCEPT !.consumer = "ended"]
    /\ UNCHANGED varsNotScript

\* a queue of maxsize 1..MaxQ, Workers producers making MaxCalls add calls
InitBufferSpec ==
    /\ InitStreamer(1)
    /\ InitGenerator
    /\ InitProducer(1)
    /\ InitSystem(1)
    /\ InitFrames(0)
    /\ \E m \in 1..MaxQ : InitBuffer(m)

NextBuffer ==
    \/ \E p \in 1..Workers : BufCall(p)
    \/ \E p \in 1..Workers : BufPut(p)
    \/ \E p \in 1..Workers : BufEvict(p)
    \/ \E p \in 1..Workers : BufRePut(p)
    \/ BufGet
    \/ BufConsumerEnds

BufferSpec == InitBufferSpec /\ [][NextBuffer]_vars

\* C36: add_text / add_video always enqueue the new item and never block
\* indefinitely, under every interleaving with consumers and other
\* producers: no add call returns without having stored its item, and no
\* producer waits in a put for room in a full queue while the consumer has
\* ended and no other thread is inside an add call.
C36_AlwaysEnqueued ==
    calc.op = "buffer" =>
        /\ calc.dropped = {}
        /\ \A p \in 1..Workers :
               ~ /\ calc.pc[p] = "reput"
                 /\ Len(calc.q) = calc.max_size
                 /\ calc.consumer = "ended"
                 /\ \A o \in (1..Workers) \ {p} : calc.pc[o] = "idle"

\* the two ways an add call fails, each reached on its own
C36_ItemDropped == calc.op = "buffer" /\ calc.dropped # {}

C36_PutBlocked ==
    /\ calc.op = "buffer"
    /\ \E p \in 1..Workers :
           /\ calc.pc[p] = "reput"
           /\ Len(calc.q) = calc.max_size
           /\ calc.consumer = "ended"
           /\ \A o \in (1..Workers) \ {p} : calc.pc[o] = "idle"

\* ------------- DigitalHumanLiveSystem (src/digital_human_system_wenet.py)
\* self.text_queue = queue.Queue(maxsize=10)
wenet_text_queue_maxsize == 10

\* calc.op = "wenet": start(), stop(), add_text() and the video-generation
\* worker thread of one DigitalHumanLiveSystem.  Texts are numbered in the
\* order of the add_text calls.
\*   running:    self.running
\*   start_pc:   position of start(); ret: what it returned ("none" before)
\*   worker_pc:  "none" before video_thread.start(), then the position of
\*               _video_generation_worker, "done" when it has returned
\*   text_queue: self.text_queue
\*   calls:      add_text calls made so far
\*   accepted:   texts whose add_text returned True
\*   consumed:   texts the worker has taken from the queue
\*   stopped:    stop() has been called
InitWenet ==
    calc = [op |-> "wenet", running |-> FALSE, start_pc |-> "idle",
            ret |-> "none", worker_pc |-> "none", text_queue |-> << >>,
            calls |-> 0, accepted |-> {}, consumed |-> {}, stopped |-> FALSE]

\* start(): if not self._check_requirements(): return False;
\* os.makedirs(temp_dir)
WenetCheck(ok) ==
    /\ calc.op = "wenet"
    /\ calc.start_pc = "idle"
    /\ calc' = IF ok THEN [calc EXCEPT !.start_pc = "threads"]
               ELSE [calc EXCEPT !.start_pc = "returned", !.ret = "False"]
    /\ UNCHANGED varsNotScript

\* start(): self.video_thread = threading.Thread(target=
\* self._video_generation_worker, daemon=True); self.video_thread.start()
\* (and the same for the stream thread)
WenetSpawn ==
    /\ calc.op = "wenet"
    /\ calc.start_pc = "threads"
    /\ calc' = [calc EXCEPT !.start_pc = "spawned", !.worker_pc = "loop"]
    /\ UNCHANGED varsNotScript

\* start(): self.running = True
WenetSetRunning ==
    /\ calc.op = "wenet"
    /\ calc.start_pc = "spawned"
    /\ calc' = [calc EXCEPT !.start_pc = "set", !.running = TRUE]
    /\ UNCHANGED varsNotScript

\* start(): return True
WenetStartReturn ==
    /\ calc.op = "wenet"
    /\ calc.start_pc = "set"
    /\ calc' = [calc EXCEPT !.start_pc = "returned", !.ret = "True"]
    /\ UNCHANGED varsNotScript

\* _video_generation_worker: while self.running:
WenetWorkerLoop ==
    /\ calc.op = "wenet"
    /\ calc.worker_pc = "loop"
    /\ calc' = [calc EXCEPT !.worker_pc = IF calc.running THEN "get" ELSE "done"]
    /\ UNCHANGED varsNotScript

\* text = self.text_queue.get(timeout=1.0) and the processing of the text,
\* or queue.Empty -> continue
WenetWorkerGet ==
    /\ calc.op = "wenet"
    /\ calc.worker_pc = "get"
    /\ calc' = IF calc.text_queue = << >>
               THEN [calc EXCEPT !.worker_pc = "loop"]
               ELSE [calc EXCEPT !.worker_pc = "loop",
                                 !.text_queue = Tail(@),
                                 !.consumed = @ \cup {Head(calc.text_queue)}]
    /\ UNCHANGED varsNotScript

\* add_text(text): if not self.running: return False;
\* self.text_queue.put(text, timeout=1.0); return True
\* (queue.Full: return False)
WenetAddText ==
    /\ calc.op = "wenet"
    /\ calc.calls < MaxCalls
    /\ calc' = IF calc.running /\ Len(calc.text_queue) < wenet_text_queue_maxsize
               THEN [calc EXCEPT !.calls = @ + 1,
                                 !.text_queue = Append(@, calc.calls + 1),
                                 !.accepted = @ \cup {calc.calls + 1}]
               ELSE [calc EXCEPT !.calls = @ + 1]
    /\ UNCHANGED varsNotScript

\* stop(), called once after start() has returned: self.running = False;
\* self.udp_streamer.stop_stream()
WenetStop ==
    /\ calc.op = "wenet"
    /\ calc.start_pc = "returned"
    /\ ~calc.stopped
    /\ calc' = [calc EXCEPT !.running = FALSE, !.stopped = TRUE]
    /\ UNCHANGED varsNotScript

InitWenetSpec ==
    /\ InitStreamer(1)
    /\ InitGenerator
    /\ InitProducer(1)
    /\ InitSystem(1)
    /\ InitFrames(0)
    /\ InitWenet

NextWenet ==
    \/ \E ok \in BOOLEAN : WenetCheck(ok)
    \/ WenetSpawn
    \/ WenetSetRunning
    \/ WenetStartReturn
    \/ WenetWorkerLoop
    \/ WenetWorkerGet
    \/ WenetAddText
    \/ WenetStop

WenetSpec == InitWenetSpec /\ [][NextWenet]_vars

\* C37: after start() has returned True, and as long as stop() has not been
\* called, the video-generation worker thread is inside its loop (it has
\* not returned), so that it will consume the texts add_text accepts.
C37_WorkerAliveAfterStart ==
    calc.op = "wenet" =>
        ((calc.start_pc = "returned" /\ calc.ret = "True" /\ ~calc.stopped)
            => calc.worker_pc \in {"loop", "get"})

\* ---------------------------------- main of src/inference_improved.py
\* calc.op = "improved": the frame loop of main() inside
\* `with timeout_context(timeout_seconds)`, for total_frames frames.
\*   i:         loop variable; pc: "header" at the for statement, "body"
\*              inside the try block of an iteration, "done" after main
\*   alarm:     "armed" from signal.alarm(seconds) until SIGALRM is
\*              delivered ("fired") or signal.alarm(0) cancels it
\*   processed_frames, skipped_frames: the counters of main
\*   released:  video_writer.release() has been called
\*   ret:       the value main returned ("none" while it runs)
InitImproved(n) ==
    calc = [op |-> "improved", total_frames |-> n, i |-> 0, pc |-> "header",
            alarm |-> "armed", processed_frames |-> 0, skipped_frames |-> 0,
            released |-> FALSE, ret |-> "none"]

\* for i in tqdm(range(total_frames)): the next iteration begins, or the
\* loop and the with block end (signal.alarm(0)), the summary is logged,
\* the finally clause releases the writer and main returns 0
ImpHeader ==
    /\ calc.op = "improved"
    /\ calc.pc = "header"
    /\ calc' = IF calc.i < calc.total_frames
               THEN [calc EXCEPT !.pc = "body"]
               ELSE [calc EXCEPT !.pc = "done", !.released = TRUE, !.ret = "0",
                                 !.alarm = IF @ = "armed" THEN "cancelled" ELSE @]
    /\ UNCHANGED varsNotScript

\* the try block of one iteration without a timeout: the frame is written
\* (processed_frames += 1), or a test or an exception ends the iteration
\* (skipped_frames += 1; continue)
ImpBody(written) ==
    /\ calc.op = "improved"
    /\ calc.pc = "body"
    /\ calc' = IF written
               THEN [calc EXCEPT !.processed_frames = @ + 1, !.i = @ + 1,
                                 !.pc = "header"]
               ELSE [calc EXCEPT !.skipped_frames = @ + 1, !.i = @ + 1,
                                 !.pc = "header"]
    /\ UNCHANGED varsNotScript

\* SIGALRM is delivered while the try block of an iteration runs:
\* timeout_handler raises TimeoutError, a subclass of Exception, inside the
\* block; `except Exception as e` of the iteration logs it,
\* skipped_frames += 1; continue
ImpTimeoutInBody ==
    /\ calc.op = "improved"
    /\ calc.pc = "body"
    /\ calc.alarm = "armed"
    /\ calc' = [calc EXCEPT !.alarm = "fired", !.skipped_frames = @ + 1,
                            !.i = @ + 1, !.pc = "header"]
    /\ UNCHANGED varsNotScript

\* SIGALRM is delivered between two try blocks (the for statement, the
\* progress bar, an except clause of an iteration): TimeoutError leaves the
\* with block, `except TimeoutError` of main returns 1 and the finally
\* clause releases the writer
ImpTimeoutInHeader ==
    /\ calc.op = "improved"
    /\ calc.pc = "header"
    /\ calc.alarm = "armed"
    /\ calc' = [calc EXCEPT !.alarm = "fired", !.pc = "done",
                            !.released = TRUE, !.ret = "1"]
    /\ UNCHANGED varsNotScript

\* one run for every number of frames up to MaxFrames
InitImprovedSpec ==
    /\ InitStreamer(1)
    /\ InitGenerator
    /\ InitProducer(1)
    /\ InitSystem(1)
    /\ InitFrames(0)
    /\ \E n \in 0..MaxFrames : InitImproved(n)

NextImproved ==
    \/ ImpHeader
    \/ \E written \in BOOLEAN : ImpBody(written)
    \/ ImpTimeoutInBody
    \/ ImpTimeoutInHeader

ImprovedSpec == InitImprovedSpec /\ [][NextImproved]_vars

\* C38: once the configured timeout has elapsed during frame processing,
\* frame processing has stopped, the video writer is released and main has
\* returned 1; the timeout is never taken for a skipped frame after which
\* the loop goes on.
C38_TimeoutEndsRun ==
    calc.op = "improved" =>
        (calc.alarm = "fired" =>
            /\ calc.pc = "done"
            /\ calc.released
            /\ calc.ret = "1")

\* ------------------------------------------ the crop region before clipping
\* the padded square of the landmarks with extremes l as inference.py and
\* MyDataset.process_img compute it, before the max(0, .) / min(img, .)
\* statements: xmin = center_x - size // 2, xmax = xmin + size, and the
\* same for y
PaddedBox(l) ==
    LET width == l.xmax - l.xmin
        height == l.ymax - l.ymin
        size0 == max(width, height)
        center_x == (l.xmin + l.xmax) \div 2
        center_y == (l.ymin + l.ymax) \div 2
        size == (12 * size0) \div 10
        xmin == center_x - size \div 2
        ymin == center_y - size \div 2
    IN  [xmin |-> xmin, xmax |-> xmin + size,
         ymin |-> ymin, ymax |-> ymin + size]

\* C39: before clamping to the image bounds, the padded square crop region
\* of a frame with enough landmarks contains every landmark it was computed
\* from, in the half-open sense of the slice: xmin <= x < xmax and
\* ymin <= y < ymax for the extreme (hence for every) landmark coordinate,
\* also when the extent of the landmarks is very small.
C39_PaddedBoxHoldsLandmarks ==
    (calc.op = "crop" /\ calc.pc # "frame" /\ calc.count >= 10) =>
        LET b == PaddedBox(calc.lms)
        IN  /\ b.xmin <= calc.lms.xmin /\ calc.lms.xmax < b.xmax
            /\ b.ymin <= calc.lms.ymin /\ calc.lms.ymax < b.ymax

\* ------ ActionManager.get_action_sequence (enhanced_digital_human_generator)
MaxAudio == 3   \* largest audio_length explored
MaxDur   == 2   \* largest configured action duration explored

\* self.total_images = 1177 when the image directory does not exist
enhanced_default_total_images == 1177

\* ActionManager.action_categories: the image ranges of each category
action_categories ==
    [a \in ActionTypes |->
        CASE a = "greeting"   -> {<< 0, 100 >>, << 500, 600 >>}
          [] a = "pointing"   -> {<< 100, 200 >>, << 800, 900 >>}
          [] a = "excited"    -> {<< 200, 350 >>, << 900, 1000 >>}
          [] a = "explaining" -> {<< 350, 500 >>, << 1000, 1100 >>}
          [] OTHER            -> {<< 600, 800 >>, << 1100, 1177 >>}]

\* img_idx of step i of _generate_smooth_sequence(start_img, end_img,
\* duration) for duration > 1: progress = i / (duration - 1), eased =
\* progress^2 * (3 - 2 * progress), int(start_img + (end_img - start_img) *
\* eased) as the exact quotient (both ends are >= 0 here, so int() is the
\* floor), then max(0, min(img_idx, total_images - 1))
SmoothIndex(start_img, end_img, duration, i, total_images) ==
    LET den == (duration - 1) * (duration - 1) * (duration - 1)
        num == i * i * (3 * (duration - 1) - 2 * i)
        img_idx == (start_img * den + (end_img - start_img) * num) \div den
    IN  max(0, min(img_idx, total_images - 1))

\* _generate_smooth_sequence: [start_img] when duration <= 1
generate_smooth_sequence(start_img, end_img, duration, total_images) ==
    IF duration <= 1 THEN << start_img >>
    ELSE [k \in 1..duration |->
              SmoothIndex(start_img, end_img, duration, k - 1, total_images)]

\* the segment of one iteration of the while loop for the chosen range r
\* and the value d of random.randint, with frame_idx frames done:
\* [start_img] * duration (empty for duration <= 0) or the smooth sequence
Segment(r, d, audio_length, frame_idx, total_images) ==
    LET start_img == min(r[1], total_images - 1)
        end_img == min(r[2], total_images - 1)
        duration == min(d, audio_length - frame_idx)
    IN  IF start_img = end_img THEN [k \in 1..duration |-> start_img]
        ELSE generate_smooth_sequence(start_img, end_img, duration, total_images)

\* calc.op = "sequence": one call get_action_sequence(text, audio_length)
\* with enable_action_variety set, inside its while loop.
\*   main:     main_action_type (analyze_text_action(text) at first)
\*   frame_idx, sequence: the locals of the method
\*   pc:       "loop" at the while test, "returned" after return sequence,
\*             "raised" when an exception has left the method
InitSequence(n, lo, hi, total, a) ==
    calc = [op |-> "sequence", pc |-> "loop", audio_length |-> n,
            min_action_duration |-> lo, max_action_duration |-> hi,
            total_images |-> total, main |-> a, frame_idx |-> 0,
            sequence |-> << >>]

\* one iteration of `while frame_idx < audio_length` with the range r of
\* random.choice, the value d of random.randint (a ValueError when
\* min_action_duration > max_action_duration, caught by nothing in the
\* method) and the category a kept (a = main) or switched to
SeqIterate(r, d, a) ==
    /\ calc.op = "sequence"
    /\ calc.pc = "loop"
    /\ calc.frame_idx < calc.audio_length
    /\ r \in action_categories[calc.main]
    /\ IF calc.min_action_duration > calc.max_action_duration
       THEN calc' = [calc EXCEPT !.pc = "raised"]
       ELSE /\ d \in calc.min_action_duration..calc.max_action_duration
            /\ LET segment == Segment(r, d, calc.audio_length, calc.frame_idx,
                                      calc.total_images)
                   frame_idx == calc.frame_idx + Len(segment)
               IN  /\ (a # calc.main) => frame_idx < calc.audio_length
                   /\ calc' = [calc EXCEPT !.sequence = @ \o segment,
                                           !.frame_idx = frame_idx,
                                           !.main = a]
    /\ UNCHANGED varsNotScript

\* after the loop: the sequence cut or extended to audio_length, the log
\* line with min(sequence) and max(sequence) (a ValueError for an empty
\* sequence), return sequence
SeqReturn ==
    /\ calc.op = "sequence"
    /\ calc.pc = "loop"
    /\ calc.frame_idx >= calc.audio_length
    /\ LET n == calc.audio_length
           last_img == IF calc.sequence # << >>
                       THEN calc.sequence[Len(calc.sequence)] ELSE 0
           sequence == IF Len(calc.sequence) > n THEN SubSeq(calc.sequence, 1, n)
                       ELSE calc.sequence
                            \o [k \in 1..(n - Len(calc.sequence)) |-> last_img]
       IN  calc' = [calc EXCEPT !.sequence = sequence,
                                !.pc = IF sequence = << >> THEN "raised"
                                       ELSE "returned"]
    /\ UNCHANGED varsNotScript

\* the pool sizes explored: a single image, and the default
SequencePools == {1, enhanced_default_total_images}

\* one call for every audio_length up to MaxAudio, every pair of
\* configured durations in 0..MaxDur and every first category
InitSequenceSpec ==
    /\ InitStreamer(1)
    /\ InitGenerator
    /\ InitProducer(1)
    /\ InitSystem(1)
    /\ InitFrames(0)
    /\ \E n \in 0..MaxAudio : \E lo, hi \in 0..MaxDur :
       \E total \in SequencePools : \E a \in ActionTypes :
          InitSequence(n, lo, hi, total, a)

NextSequence ==
    \/ \E r \in UNION {action_categories[a] : a \in ActionTypes} :
       \E d \in 0..MaxDur : \E a \in ActionTypes : SeqIterate(r, d, a)
    \/ SeqReturn

SequenceSpec == InitSequenceSpec /\ [][NextSequence]_vars

\* C40: get_action_sequence(text, audio_length) terminates for every
\* audio_length >= 0 and every configured pair of action durations, and
\* returns exactly audio_length indices, each in 0 .. total_images - 1: no
\* exception leaves the method, the loop is never in a state where no
\* choice of range, duration and category appends a frame, and the sequence
\* returned has the length and the range stated.
C40_SequenceReturned ==
    calc.op = "sequence" =>
        /\ calc.pc # "raised"
        /\ (calc.pc = "loop" /\ calc.frame_idx < calc.audio_length) =>
               \E a \in ActionTypes : \E r \in action_categories[a] :
               \E d \in calc.min_action_duration..calc.max_action_duration :
                   Segment(r, d, calc.audio_length, calc.frame_idx,
                           calc.total_images) # << >>
        /\ calc.pc = "returned" =>
               /\ Len(calc.sequence) = calc.audio_length
               /\ \A k \in 1..Len(calc.sequence) :
                      /\ 0 <= calc.sequence[k]
                      /\ calc.sequence[k] <= calc.total_images - 1

\* the ways the call fails, each reached on its own: the empty sequence of
\* audio_length = 0 raises in the log line; with both durations 0 and a
\* pool of one image no iteration appends a frame
C40_EmptyRaises ==
    /\ calc.op = "sequence"
    /\ calc.pc = "raised"
    /\ calc.audio_length = 0
    /\ calc.min_action_duration <= calc.max_action_duration

C40_LoopStalled ==
    /\ calc.op = "sequence"
    /\ calc.pc = "loop"
    /\ calc.frame_idx < calc.audio_length
    /\ calc.min_action_duration <= calc.max_action_duration
    /\ \A a \in ActionTypes : \A r \in action_categories[a] :
       \A d \in calc.min_action_duration..calc.max_action_duration :
           Segment(r, d, calc.audio_length, calc.frame_idx,
                   calc.total_images) = << >>

\* what does hold: a sequence that is returned has exactly audio_length
\* indices, each in 0 .. total_images - 1
C40_ReturnedInRange ==
    (calc.op = "sequence" /\ calc.pc = "returned") =>
        /\ Len(calc.sequence) = calc.audio_length
        /\ \A k \in 1..Len(calc.sequence) :
               /\ 0 <= calc.sequence[k]
               /\ calc.sequence[k] <= calc.total_images - 1

\* ------------------ task ids of AsyncUDPStreamer (dh_streamer_async.py)
MaxSubmits == 3   \* add_stream_task calls explored
MaxClock   == 1   \* milliseconds that pass during a run
MaxPaths   == 2   \* distinct video paths submitted

\* hash(video_path) % 10000
hash_modulus == 10000

\* the video paths, and the values hash(video_path) may have
Paths == 1..MaxPaths

HashValues == {0, 1, hash_modulus}

\* task_id = f"stream_{int(time.time() * 1000)}_{hash(video_path) % 10000:04d}"
\* for the clock value now (in ms) and the hash h of the path
TaskId(now, h) == << now, h % hash_modulus >>

\* d[k] = v of a dict: a new key, or the value of an old key replaced
DictSet(d, k, v) == [x \in DOMAIN d \cup {k} |-> IF x = k THEN v ELSE d[x]]

\* d.pop(k)
DictPop(d, k) == [x \in DOMAIN d \ {k} |-> d[x]]

\* calc.op = "ids": a started streamer whose dicts are keyed by the task ids
\* as add_stream_task builds them.  Task objects are numbered in the order
\* of their creation.
\*   now:      int(time.time() * 1000)
\*   hash:     hash() of each path in this interpreter
\*   max_concurrent_streams: the constructor argument
\*   task_id, video_path: the fields of each task object
\*   state:    per task object: "PENDING", "STREAMING" (a child process
\*             was spawned for it), "COMPLETED", "FAILED"
\*   stream_queue: the queued task objects
\*   active_tasks, completed_tasks: the dicts, task id -> task object
InitTaskIds(m, h) ==
    calc = [op |-> "ids", now |-> 0, hash |-> h, max_concurrent_streams |-> m,
            task_id |-> << >>, video_path |-> << >>, state |-> << >>,
            stream_queue |-> << >>, active_tasks |-> << >>,
            completed_tasks |-> << >>]

\* time passes: the next millisecond begins
IdTick ==
    /\ calc.op = "ids"
    /\ calc.now < MaxClock
    /\ calc' = [calc EXCEPT !.now = @ + 1]
    /\ UNCHANGED varsNotScript

\* add_stream_task(video_path, audio_path) for the path p: the id is built,
\* the task object is put on stream_queue, the id is returned
IdAdd(p) ==
    /\ calc.op = "ids"
    /\ Len(calc.task_id) < MaxSubmits
    /\ calc' = [calc EXCEPT
                   !.task_id = Append(@, TaskId(calc.now, calc.hash[p])),
                   !.video_path = Append(@, p),
                   !.state = Append(@, "PENDING"),
                   !.stream_queue = Append(@, Len(calc.task_id) + 1)]
    /\ UNCHANGED varsNotScript

\* _task_manager: if len(self.active_tasks) < self.max_concurrent_streams:
\* task = self.stream_queue.get(); self._start_stream_task(task), which
\* stores the task under its id in completed_tasks (file missing, or Popen
\* raised) or spawns the child and stores the task in active_tasks
IdStart(started) ==
    /\ calc.op = "ids"
    /\ calc.stream_queue # << >>
    /\ Cardinality(DOMAIN calc.active_tasks) < calc.max_concurrent_streams
    /\ LET t == Head(calc.stream_queue)
       IN  calc' = IF started
                   THEN [calc EXCEPT
                            !.stream_queue = Tail(@),
                            !.state[t] = "STREAMING",
                            !.active_tasks = DictSet(@, calc.task_id[t], t)]
                   ELSE [calc EXCEPT
                            !.stream_queue = Tail(@),
                            !.state[t] = "FAILED",
                            !.completed_tasks = DictSet(@, calc.task_id[t], t)]
    /\ UNCHANGED varsNotScript

\* _process_monitor: the process of the task stored under key k has ended
\* (return code rc_zero or not): the status is set, the key is popped from
\* active_tasks and the task stored under it in completed_tasks
IdMonitor(k, rc_zero) ==
    /\ calc.op = "ids"
    /\ k \in DOMAIN calc.active_tasks
    /\ LET t == calc.active_tasks[k]
       IN  calc' = [calc EXCEPT
                       !.state[t] = IF rc_zero THEN "COMPLETED" ELSE "FAILED",
                       !.active_tasks = DictPop(@, k),
                       !.completed_tasks = DictSet(@, k, t)]
    /\ UNCHANGED varsNotScript

\* every constructor argument up to MaxConc and every assignment of hash
\* values to the paths
InitTaskIdSpec ==
    /\ InitStreamer(1)
    /\ InitGenerator
    /\ InitProducer(1)
    /\ InitSystem(1)
    /\ InitFrames(0)
    /\ \E m \in 1..MaxConc : \E h \in [Paths -> HashValues] : InitTaskIds(m, h)

NextTaskId ==
    \/ IdTick
    \/ \E p \in Paths : IdAdd(p)
    \/ \E started \in BOOLEAN : IdStart(started)
    \/ \E k \in DOMAIN calc.active_tasks :
       \E rc_zero \in BOOLEAN : IdMonitor(k, rc_zero)

TaskIdSpec == InitTaskIdSpec /\ [][NextTaskId]_vars

\* C31: the ids returned by add_stream_task are unique - two submissions,
\* also of the same video path within the same millisecond, never get the
\* same id - so that no entry of active_tasks or completed_tasks is replaced
\* by a different task: every task with a spawned process is the entry of
\* its id in active_tasks, and every task that has ended is the entry of
\* its id in completed_tasks.
C31_UniqueTaskIds ==
    calc.op = "ids" =>
        /\ \A i, j \in 1..Len(calc.task_id) :
               i # j => calc.task_id[i] # calc.task_id[j]
        /\ \A t \in 1..Len(calc.task_id) :
               /\ calc.state[t] = "STREAMING" =>
                     /\ calc.task_id[t] \in DOMAIN calc.active_tasks
                     /\ calc.active_tasks[calc.task_id[t]] = t
               /\ calc.state[t] \in {"COMPLETED", "FAILED"} =>
                     /\ calc.task_id[t] \in DOMAIN calc.completed_tasks
                     /\ calc.completed_tasks[calc.task_id[t]] = t

\* a task whose process was spawned and is no longer any entry of
\* active_tasks: the monitor never polls it nor ends it on timeout
C31_ProcessLostOwner ==
    /\ calc.op = "ids"
    /\ \E t \in 1..Len(calc.task_id) :
           /\ calc.state[t] = "STREAMING"
           /\ \A k \in DOMAIN calc.active_tasks : calc.active_tasks[k] # t

====
